---- MODULE Spec2Model ----
(***************************************************************************)
(* PDF viewer of IspBirntg (src/unnamed/part_003, PDFViewer component):    *)
(* the reading-state tracker (zoom, scroll, debounced save, load) and the  *)
(* annotation / pointer-gesture handlers, as one state machine.            *)
(*                                                                         *)
(* Numbers.  scale is the zoom level in hundredths (100 = 1.0).  Times are *)
(* in milliseconds.  Pixel lengths are integers.  Annotation geometry is   *)
(* in tenths of a percent of the page (1000 = 100%).  The saved scroll     *)
(* percentage is an exact fraction <<numerator, denominator>> in lowest    *)
(* terms.  A value that can be null in the source is a sequence: <<>> for  *)
(* null, <<v>> for the value v.                                            *)
(*                                                                         *)
(* The viewer is open on a conversation with a document: its props         *)
(* conversationId, pdfId and pdfUrl are non-null throughout.               *)
(*                                                                         *)
(* Beside the viewer: the screenshot crop of its handleMouseUp as a        *)
(* function of the rectangles, the chat panel (ChatPanel.tsx), the         *)
(* typewriter hook (useTypewriter.ts) and the status polling of an         *)
(* uploaded document (pollPDFStatus), each with variables of its own.      *)
(***************************************************************************)
EXTENDS Integers, Sequences, FiniteSets, TLC

VARIABLES
    \* ---- reading state (component state and refs)
    mounted,        \* the component is mounted (pdfContentRef.current is set)
    scale,          \* useState scale, hundredths
    currentPage,    \* useState currentPage
    totalPages,     \* useState totalPages (0 until the document has loaded)
    scrollTop,      \* pdfContentRef.current.scrollTop, px
    saveTimers,     \* pending setTimeout callbacks of saveReadingState
    restoreTimers,  \* pending setTimeout callbacks of loadReadingState
    \* ---- persistence interface (backend and transport)
    stored,         \* the persisted reading state of this conversation/document
    readCalls,      \* getReadingState calls in flight
    saveCalls,      \* saveReadingState calls in flight
    \* ---- annotations (component state and refs)
    annotations,            \* useState annotations: the local list
    annotationMode,         \* useState annotationMode: "none", "highlight", "text"
    highlightColor,         \* useState highlightColor
    isCreatingAnnotation,   \* useState isCreatingAnnotation
    annotationStart,        \* useState annotationStart: null or {x, y, pageNumber}
    annotationEnd,          \* useState annotationEnd: null or {x, y}
    draggingAnnotation,     \* useState draggingAnnotation: null or {id, startX, startY}
    resizingTextBox,        \* useState resizingTextBox: null or {id, corner, startX, startY}
    editingTextBox,         \* useState editingTextBox: the id, 0 for null
    textBoxClickTimeRef,    \* ref: null or {id, elapsed} (elapsed = Date.now() - time)
    longPressTimers,        \* pending setTimeout callbacks of handleAnnotationMouseDown
    selectionStart,         \* useState selectionStart: null or {x, y}
    selectionEnd,           \* useState selectionEnd: null or {x, y}
    isSelecting,            \* useState isSelecting
    screenshotPreview,      \* useState screenshotPreview: null or {x, y, width, height}
    \* ---- annotation persistence (backend and transport)
    serverAnns,     \* the annotations the backend holds for this document
    nextId,         \* the id the backend assigns next
    annCalls,       \* annotationApi calls in flight
    \* ---- the pointer (environment)
    pointer,        \* client position of the pointer, px
    button,         \* "up" or "left"
    downTarget,     \* the element the button went down on
    \* ---- history (not program state)
    hist,           \* what the debounce claims are stated on
    press,          \* the pointer session since the last pointer-down
    nZoom,          \* zoom clicks so far
    nMoves,         \* pointer moves so far
    nPresses,       \* pointer presses so far
    \* ---- the screenshot crop (handleMouseUp, as a function of rectangles)
    cropInput,          \* the selection and the canvases' rectangles, client px
    screenshotCanvas,   \* null or the drawImage call: source rectangle and canvas size
    \* ---- the chat panel (ChatPanel.tsx)
    conversationId,     \* prop conversationId, 0 for null
    messages,           \* useState messages
    isLoading,          \* useState isLoading
    chatCalls,          \* conversationApi calls in flight
    serverMessages,     \* the messages the backend holds, per conversation
    nSubmits,           \* submits so far
    nSwitches,          \* changes of conversation so far
    \* ---- the typewriter (useTypewriter.ts)
    textProp,           \* argument text of the last render
    displayedText,      \* useState displayedText
    textRef,            \* textRef.current
    indexRef,           \* indexRef.current
    animationRef,       \* a requestAnimationFrame callback is pending
    lastUpdateRef,      \* performance.now() - lastUpdateRef.current, capped, ms
    \* ---- status polling of an uploaded document (pollPDFStatus)
    attempts,           \* let attempts
    pollTimers,         \* pending setTimeout(poll, 2000) callbacks
    statusCalls,        \* pdfApi.getPDFStatus calls in flight
    vectorization,      \* vectorization_status the backend holds
    conversationPdfs,   \* useState conversationPdfs: the local vectorization_status
    pollHist            \* requests issued so far, and whether polling has ended

readVars == <<mounted, scale, currentPage, totalPages, scrollTop, saveTimers, restoreTimers>>
persistVars == <<stored, readCalls, saveCalls>>
createVars == <<isCreatingAnnotation, annotationStart, annotationEnd>>
selectVars == <<selectionStart, selectionEnd, isSelecting, screenshotPreview>>
gestVars == <<annotationMode, highlightColor, createVars, draggingAnnotation, resizingTextBox,
              editingTextBox, textBoxClickTimeRef, longPressTimers, selectVars>>
annVars == <<annotations, serverAnns, nextId, annCalls>>
envVars == <<pointer, button, downTarget, press, nMoves, nPresses>>
viewerVars == <<readVars, persistVars, gestVars, annVars, envVars, hist, nZoom>>
cropVars == <<cropInput, screenshotCanvas>>
chatVars == <<conversationId, messages, isLoading, chatCalls, serverMessages, nSubmits, nSwitches>>
typeVars == <<textProp, displayedText, textRef, indexRef, animationRef, lastUpdateRef>>
pollVars == <<attempts, pollTimers, statusCalls, vectorization, conversationPdfs, pollHist>>
panelVars == <<cropVars, chatVars, typeVars, pollVars>>
vars == <<viewerVars, panelVars>>

----------------------------------------------------------------------------
\* Bounds of the model.
MaxCalls == 1          \* calls of one kind in flight at once
MaxZooms == 2          \* zoom clicks in one run

\* Program constants.
SaveDelay == 2000      \* debounce delay of saveReadingState, ms
RestoreDelay == 500    \* delay before the scroll position is restored, ms
ZoomStep == 25         \* 0.25
ZoomMin == 50          \* 0.5
ZoomMax == 300         \* 3.0
ZoomDefault == 100     \* 1.0
PageWidth == 600       \* <Page width={600}>, px at scale 1.0

\* Environment: the document and the scroll container.
NumPages == 2          \* pages of the loaded document
PageHeight == 1000     \* rendered height of one page at scale 1.0, px
ClientHeight == 500    \* clientHeight of the scroll container, px

Null == <<>>
Some(v) == <<v>>
Min(a, b) == IF a < b THEN a ELSE b
Max(a, b) == IF a > b THEN a ELSE b
Abs(a) == IF a < 0 THEN -a ELSE a

RECURSIVE GCD(_, _)
GCD(a, b) == IF b = 0 THEN a ELSE GCD(b, a % b)

\* The exact quotient n/d (d > 0, n >= 0) in lowest terms.
Frac(n, d) == LET g == GCD(n, d) IN <<n \div g, d \div g>>

----------------------------------------------------------------------------
\* The scroll container (.pdf-content) around the scaled document container.

\* Height of the document container's content after transform: scale(...).
ContentHeight(tp, s) == (tp * PageHeight * s) \div 100

\* scrollHeight of the scroll container: never less than its clientHeight.
ScrollHeight(tp, s) == Max(ClientHeight, ContentHeight(tp, s))

MaxScroll(tp, s) == ScrollHeight(tp, s) - ClientHeight

\* The browser keeps scrollTop within [0, scrollHeight - clientHeight].
ClampScroll(st, tp, s) == Max(0, Min(st, MaxScroll(tp, s)))

----------------------------------------------------------------------------
\* saveReadingState: the percentage computed inside the timer callback.
ScrollPercentNoHundred(st, sh, ch) ==
    LET maxScroll == sh - ch
    IN  IF maxScroll > 0 THEN Frac(st, maxScroll) ELSE Frac(0, 1)

ScrollPercent(st, sh, ch) ==
    LET maxScroll == sh - ch
    IN  IF maxScroll > 0 THEN Frac(st * 100, maxScroll) ELSE Frac(0, 1)

\* loadReadingState: the pixel position restored from a stored percentage
\* (the browser stores scrollTop as a whole number of pixels within range).
TargetScrollUnzoomed(pct, tp, s) ==
    ClampScroll((MaxScroll(tp, ZoomDefault) * pct[1]) \div (pct[2] * 100), tp, s)
TargetScroll(pct, tp, s) ==
    ClampScroll((MaxScroll(tp, s) * pct[1]) \div (pct[2] * 100), tp, s)

\* handleZoomIn / handleZoomOut / handleZoomReset: the new scale.
ZoomInNoClamp(prev) == prev + ZoomStep
ZoomIn(prev) == Min(prev + ZoomStep, ZoomMax)
ZoomOut(prev) == Max(prev - ZoomStep, ZoomMin)
ZoomReset(prev) == ZoomDefault

\* saveReadingState, up to setTimeout: the timer the ref points to is cleared.
KeepAllTimers(timers) == {[t EXCEPT !.ref = FALSE] : t \in timers}
ClearTimeoutRef(timers) == {t \in timers : ~t.ref}

\* saveReadingState(): restart the debounce timer.  The callback closes over
\* currentPage and scale of the render that created it.
SaveReadingStateFirstPage(timers, page, zoom) ==
    ClearTimeoutRef(timers) \cup
        {[remaining |-> SaveDelay, page |-> 1, zoom |-> zoom, ref |-> TRUE]}
SaveReadingState(timers, page, zoom) ==
    ClearTimeoutRef(timers) \cup
        {[remaining |-> SaveDelay, page |-> page, zoom |-> zoom, ref |-> TRUE]}

\* History.  The ids of the delete calls that resumed when the annotation was
\* no longer in the local list (redeleted); and, kept at each call of
\* saveReadingState: the state as of the event,
\* the time since it (since), the events of the current burst (burst, an event
\* while a save is pending continues the burst), the save calls issued since
\* the last event (saves) and whether the last event still awaits its save.
Snapshot(page, zoom, st, tp) ==
    [page |-> page, zoom |-> zoom,
     scroll |-> ScrollPercent(st, ScrollHeight(tp, zoom), ClientHeight)]

NoteEvent(page, zoom, st, tp) ==
    [hist EXCEPT !.unsaved = TRUE, !.since = 0, !.saves = 0,
                 !.burst = IF hist.unsaved THEN Min(@ + 1, 3) ELSE 1,
                 !.snapshot = Snapshot(page, zoom, st, tp)]

----------------------------------------------------------------------------
\* Annotations.  Geometry is in tenths of a percent of the page.

MaxMoves == 1          \* pointer moves in one run
MaxPresses == 1        \* pointer presses in one run
MaxAnns == 2           \* annotations the backend comes to hold
MaxAnnCalls == 2       \* annotationApi calls in flight at once
MaxSessionPresses == 2 \* pointer presses of the sessions in mode "none"
MaxSessionMoves == 2   \* pointer moves of the sessions in mode "none"
MaxShotMoves == 2      \* pointer moves of a screenshot selection
MaxShotPresses == 2    \* pointer presses of the screenshot selections
MaxZoomMoves == 2      \* pointer moves between zoom changes
MaxCreatePresses == 2  \* pointer presses of the creation sessions
MaxCreateMoves == 3    \* pointer moves of the creation sessions

LongPressDelay == 300        \* handleAnnotationMouseDown: long press, ms
MinTextSize == 50            \* handleResizeMove: Math.max(5, ...)
MinHighlightHeight == 15     \* handleMouseUp: minHeight = 1.5
MinCreateSize == 10          \* handleMouseUp: width > 1, height > 1
CreateThresholdSq == 25      \* handleMouseMove: distance > 0.5, squared, tenths
SelectThresholdSq == 25      \* handleMouseMove: distance > 5, squared, px
MinShot == 10                \* handleMouseUp: width > 10 && height > 10, px
HandleHalf == 4              \* resize handles: 8px squares centred on the corners
Full == 1000                 \* 100 percent

GestureTick == 150                          \* step of the clock while gesturing, ms
ElapsedCap == LongPressDelay + GestureTick   \* elapsed times saturate here

Modes == {"none", "highlight", "text"}
Colors == {"yellow", "green"}               \* two of the four <option>s
Texts == {"b"}                              \* what the user types into a text box
Corners == <<"nw", "ne", "sw", "se">>       \* the handles in document order

\* Date.now() - time of a click-time ref, d ms later.
Later(ref, d) ==
    IF ref = Null THEN Null
    ELSE Some([ref[1] EXCEPT !.elapsed = Min(@ + d, ElapsedCap)])

\* The text box the backend holds when the viewer opens.
T1 == [id |-> 1, annotation_type |-> "text", page_number |-> 1,
       x |-> 100, y |-> 100, width |-> 200, height |-> 890,
       color |-> Null, text_content |-> Some("a")]

\* A highlight the document has been loaded with.
H2 == [id |-> 2, annotation_type |-> "highlight", page_number |-> 1,
       x |-> 400, y |-> 500, width |-> 200, height |-> 50,
       color |-> Some("yellow"), text_content |-> Null]

Ids(list) == {list[i].id : i \in 1..Len(list)}
Find(list, id) == list[CHOOSE i \in 1..Len(list) : list[i].id = id]

\* annotations.filter(ann => ann.page_number === pageNumber)
PageAnnotations(list, pageNumber) ==
    SelectSeq(list, LAMBDA ann : ann.page_number = pageNumber)

\* prev.filter(ann => ann.id !== annotationId)
RemoveBySplice(list, id) ==
    IF id \in Ids(list) THEN SelectSeq(list, LAMBDA ann : ann.id # id)
    ELSE SubSeq(list, 1, Len(list) - 1)
RemoveById(list, id) == SelectSeq(list, LAMBDA ann : ann.id # id)

\* prev.map(ann => ann.id === annotationId ? updated : ann)
ReplaceEvery(list, id, updated) == [i \in 1..Len(list) |-> updated]
ReplaceOrAppend(list, id, updated) ==
    IF id \in Ids(list)
    THEN [i \in 1..Len(list) |-> IF list[i].id = id THEN updated ELSE list[i]]
    ELSE Append(list, updated)
ReplaceById(list, id, updated) ==
    [i \in 1..Len(list) |-> IF list[i].id = id THEN updated ELSE list[i]]

----------------------------------------------------------------------------
\* Layout in client pixels.  The scroll container's content box starts at the
\* client origin; the document container is scaled from its top left corner;
\* the pages are stacked without gaps and a page wrapper is as large as its
\* page.

\* getBoundingClientRect() of the document container.
ContainerRect(s, st) == [left |-> 0, top |-> 0 - st]

\* getBoundingClientRect() of page p (.react-pdf__Page) at scale s.
PageRect(p, s, st) ==
    [left |-> 0,
     top |-> (((p - 1) * PageHeight * s) \div 100) - st,
     width |-> (PageWidth * s) \div 100,
     height |-> (PageHeight * s) \div 100]

InRect(pt, r) ==
    /\ r.left <= pt.x /\ pt.x < r.left + r.width
    /\ r.top <= pt.y /\ pt.y < r.top + r.height

\* target.closest('.pdf-page-wrapper'): the page under a point, 0 for none.
PageUnder(pt, tp, s, st) ==
    IF \E p \in 1..tp : InRect(pt, PageRect(p, s, st))
    THEN CHOOSE p \in 1..tp : InRect(pt, PageRect(p, s, st))
    ELSE 0

\* ((e.clientX - pageRect.left) / pageRect.width) * 100, in tenths.
ToPercentUnscaled(c, origin, extent) == ((c - origin) * Full) \div PageWidth
ToPercent(c, origin, extent) == ((c - origin) * Full) \div extent

\* (delta / pageRect.width) * 100, in tenths.
DeltaPercent(delta, extent) == (delta * Full) \div extent

\* The client position of the point (cx, cy) of page p given in px at scale 1.
ClientPoint(p, cx, cy, s) ==
    [x |-> (cx * s) \div 100, y |-> (((p - 1) * PageHeight + cy) * s) \div 100]

\* Where the pointer goes, as <<page, x, y>> in px at scale 1: on a page the
\* corners of the rectangle from (10%, 10%) to (30%, 99%), the points 0.3%
\* and 1% below its top left corner and 1% below its top right corner; and
\* a point of the document container to the right of page 1.
OffPage == <<1, 660, 110>>
PagePoints ==
    { <<1, 60, 100>>, <<1, 60, 103>>, <<1, 60, 110>>, <<1, 180, 110>>,
      <<1, 180, 100>>, <<1, 60, 990>>, <<1, 180, 990>>,
      <<2, 60, 100>>, <<2, 60, 103>>, <<2, 180, 110>>, <<2, 60, 990>>, <<2, 180, 990>>,
      OffPage }
Points(s) == {ClientPoint(q[1], q[2], q[3], s) : q \in PagePoints}

\* Where the pointer is when the viewer is first looked at: near the left
\* edge of a page, on the text box T1 or on empty page content.
StartPagePoints ==
    { <<1, 60, 100>>, <<1, 60, 103>>, <<1, 60, 110>>, <<2, 60, 100>>, <<2, 60, 990>> }
StartPoints(s) == {ClientPoint(q[1], q[2], q[3], s) : q \in StartPagePoints}

\* Where the pointer goes in the sessions of mode "none": inside the text
\* box T1, 20% to the right of that point, and inside the highlight H2.
SessionPagePoints == { <<1, 60, 110>>, <<1, 180, 110>>, <<1, 300, 520>> }
SessionPoints(s) == {ClientPoint(q[1], q[2], q[3], s) : q \in SessionPagePoints}

\* The points of the page content the user points at while zooming, as
\* <<page, x, y>> in px at scale 1: inside the text box T1, to its right, and
\* on page 2.
ZoomPagePoints == { <<1, 60, 200>>, <<1, 180, 300>>, <<2, 300, 500>> }
ZoomPoints(s) == {ClientPoint(q[1], q[2], q[3], s) : q \in ZoomPagePoints}

\* Where the pointer goes in a screenshot selection, in client pixels: a
\* point of page 1, the points 4 px, (10, 10) px and (40, 40) px from it,
\* and three points of the document container to the right of the page.
ShotPoints(s) ==
    LET on == ClientPoint(1, 300, 300, s)
        off == ClientPoint(1, 660, 300, s)
    IN  { on, [x |-> on.x + 4, y |-> on.y], [x |-> on.x + 10, y |-> on.y + 10],
          [x |-> on.x + 40, y |-> on.y + 40],
          off, [x |-> off.x + 20, y |-> off.y + 20], [x |-> off.x + 40, y |-> off.y + 40] }

\* Where the pointer goes while annotations are created, as <<page, x, y>> in
\* px at scale 1: an anchor at (10%, 10%) of page 1, the points 0.5%, 1% and
\* 20% to its right, and the point 20% to its right and 30% below it.
CreatePagePoints ==
    { <<1, 60, 100>>, <<1, 63, 100>>, <<1, 66, 100>>, <<1, 180, 100>>, <<1, 180, 400>> }
CreatePoints(s) == {ClientPoint(q[1], q[2], q[3], s) : q \in CreatePagePoints}
GestureScales == {200}

----------------------------------------------------------------------------
\* What is under the pointer (e.target), from the rendered overlay.

CornerX(a, c) == IF c \in {"nw", "sw"} THEN a.x ELSE a.x + a.width
CornerY(a, c) == IF c \in {"nw", "ne"} THEN a.y ELSE a.y + a.height

\* left: x%, top: y%, width: width%, height: height% of the page.
InBody(a, pt, s, st) ==
    LET r == PageRect(a.page_number, s, st)
        rx == (pt.x - r.left) * Full
        ry == (pt.y - r.top) * Full
    IN  /\ a.x * r.width <= rx /\ rx < (a.x + a.width) * r.width
        /\ a.y * r.height <= ry /\ ry < (a.y + a.height) * r.height

\* The 8px square at left/right: -4px, top/bottom: -4px of the annotation.
InHandle(a, c, pt, s, st) ==
    LET r == PageRect(a.page_number, s, st)
        dx == ((pt.x - r.left) * Full - CornerX(a, c) * r.width) * 100
        dy == ((pt.y - r.top) * Full - CornerY(a, c) * r.height) * 100
        lim == HandleHalf * s * Full
    IN  /\ 0 - lim <= dx /\ dx < lim
        /\ 0 - lim <= dy /\ dy < lim

HandlesAt(a, pt, s, st) == {i \in 1..4 : InHandle(a, Corners[i], pt, s, st)}

\* pointerEvents: (isTextBox || annotationMode === 'highlight') ? 'auto' : 'none'
PointerEvents(a, mode) == a.annotation_type = "text" \/ mode = "highlight"

NoTarget == [kind |-> "outside", id |-> 0, corner |-> "", page |-> 0]

TargetAt(pt) ==
    LET hits == {i \in 1..Len(annotations) :
                    LET a == annotations[i]
                    IN  /\ a.page_number <= totalPages
                        /\ PointerEvents(a, annotationMode)
                        /\ \/ InBody(a, pt, scale, scrollTop)
                           \/ /\ a.annotation_type = "text"
                              /\ HandlesAt(a, pt, scale, scrollTop) # {}}
        page == PageUnder(pt, totalPages, scale, scrollTop)
    IN  IF hits # {}
        THEN LET top == IF \E i \in hits : annotations[i].id = editingTextBox
                        THEN CHOOSE i \in hits : annotations[i].id = editingTextBox
                        ELSE CHOOSE i \in hits : \A j \in hits : j <= i     \* zIndex 20 : 10
                 a == annotations[top]
                 hs == IF a.annotation_type = "text"
                       THEN HandlesAt(a, pt, scale, scrollTop) ELSE {}
             IN  IF hs # {}
                 THEN [kind |-> "handle", id |-> a.id,
                       corner |-> Corners[CHOOSE i \in hs : \A j \in hs : j <= i],
                       page |-> a.page_number]
                 ELSE [kind |-> IF a.id = editingTextBox THEN "textarea" ELSE "annotation",
                       id |-> a.id, corner |-> "", page |-> a.page_number]
        ELSE IF page > 0
             THEN [kind |-> "page", id |-> 0, corner |-> "", page |-> page]
             ELSE NoTarget

\* target.closest('[data-annotation-id]'), 0 for none.
ClickedAnnotationId(target) == target.id


----------------------------------------------------------------------------
\* annotationApi calls.  A call in flight is a record: what the handler
\* passed (args), the request sent (body), the response (result), its status
\* ("sent", then "ok" or "err") and, for history, the drag that issued it and
\* the body of the latest update of the same annotation issued after it.

Call(op, id, args, body) ==
    [op |-> op, id |-> id, args |-> args, body |-> body,
     result |-> Null, status |-> "sent", drag |-> Null, later |-> Null]

\* loadAnnotations: annotationApi.getAnnotations(conversationId, pdfId)
ListCall == Call("list", 0, Null, Null)

\* createAnnotation: the request body built from the arguments
\* (an undefined color or textContent is left out of the request).
CreateRequestNoColor(args) ==
    [annotation_type |-> args.type, page_number |-> args.pageNumber,
     x |-> args.x, y |-> args.y, width |-> args.width, height |-> args.height,
     color |-> Null, text_content |-> args.textContent]

CreateRequest(args) ==
    [annotation_type |-> args.type, page_number |-> args.pageNumber,
     x |-> args.x, y |-> args.y, width |-> args.width, height |-> args.height,
     color |-> args.color, text_content |-> args.textContent]

\* createAnnotation(type, pageNumber, x, y, width, height, color, textContent)
\* up to the await.
CreateAnnotation(type, pageNumber, x, y, width, height, color, textContent) ==
    LET args == [type |-> type, pageNumber |-> pageNumber, x |-> x, y |-> y,
                 width |-> width, height |-> height,
                 color |-> color, textContent |-> textContent]
    IN  Call("create", 0, Some(args), Some(CreateRequest(args)))

\* deleteAnnotation(annotationId) up to the await.
DeleteAnnotation(annotationId) == Call("delete", annotationId, Null, Null)

\* updateAnnotationPosition(annotationId, x, y) up to the await.
UpdateAnnotationPosition(annotationId, x, y) ==
    Call("update", annotationId, Null, Some([x |-> x, y |-> y]))

\* updateTextBoxContent(annotationId, textContent) up to the await.
UpdateTextBoxContent(annotationId, textContent) ==
    Call("update", annotationId, Null, Some([text_content |-> Some(textContent)]))

\* updateTextBoxSize(annotationId, x, y, width, height) up to the await.
UpdateTextBoxSize(annotationId, x, y, width, height) ==
    Call("update", annotationId, Null,
         Some([x |-> x, y |-> y, width |-> width, height |-> height]))

\* The try/catch of the annotation operations: the promise a caller gets is
\* resolved whether the call succeeded or failed.
Settles(status) == IF status = "ok" THEN "resolved" ELSE "resolved"

PendingCreates == Cardinality({i \in 1..Len(annCalls) : annCalls[i].op = "create"})
RemoveAt(calls, i) == [j \in 1..(Len(calls) - 1) |-> IF j < i THEN calls[j] ELSE calls[j + 1]]

\* For history: the calls in flight, each update among them marked with the
\* body of the last of the new updates of the same annotation.
Superseded(inflight, calls) ==
    [k \in 1..Len(inflight) |->
        LET c == inflight[k]
            js == {j \in 1..Len(calls) : calls[j].op = "update" /\ calls[j].id = c.id}
        IN  IF c.op = "update" /\ js # {}
            THEN [c EXCEPT !.later = calls[CHOOSE j \in js : \A l \in js : l <= j].body]
            ELSE c]

\* New calls are sent while the model has room for them.
Send(calls) ==
    /\ Len(annCalls) + Len(calls) <= MaxAnnCalls
    /\ (\E j \in 1..Len(calls) : calls[j].op = "create")
          => Len(serverAnns) + PendingCreates < MaxAnns
    /\ annCalls' = Superseded(annCalls, calls) \o calls

\* The backend: create stores the request under a new id and returns the
\* stored entity; update merges the fields given and returns the entity;
\* delete removes the entity if it is there; list returns what is stored.
Created(body, id) ==
    [id |-> id, annotation_type |-> body.annotation_type,
     page_number |-> body.page_number,
     x |-> body.x, y |-> body.y, width |-> body.width, height |-> body.height,
     color |-> body.color, text_content |-> body.text_content]

Patched(a, patch) ==
    [f \in DOMAIN a |-> IF f \in DOMAIN patch THEN patch[f] ELSE a[f]]

Answer(i, status, result) ==
    annCalls' = [annCalls EXCEPT ![i] = [@ EXCEPT !.status = status, !.result = result]]

Sent(i, op) == i \in 1..Len(annCalls) /\ annCalls[i].op = op /\ annCalls[i].status = "sent"
Answered(i, op) == i \in 1..Len(annCalls) /\ annCalls[i].op = op /\ annCalls[i].status # "sent"

ServeList(i, ok) ==
    /\ Sent(i, "list")
    /\ Answer(i, IF ok THEN "ok" ELSE "err", IF ok THEN Some(serverAnns) ELSE Null)
    /\ UNCHANGED <<readVars, persistVars, gestVars, annotations, serverAnns, nextId,
                   envVars, hist, nZoom>>

ServeCreate(i, ok) ==
    /\ Sent(i, "create")
    /\ IF ok
       THEN LET new == Created(annCalls[i].body[1], nextId)
            IN  /\ serverAnns' = Append(serverAnns, new)
                /\ nextId' = nextId + 1
                /\ Answer(i, "ok", Some(new))
       ELSE /\ Answer(i, "err", Null)
            /\ UNCHANGED <<serverAnns, nextId>>
    /\ UNCHANGED <<readVars, persistVars, gestVars, annotations, envVars, hist, nZoom>>

ServeUpdate(i, ok) ==
    /\ Sent(i, "update")
    /\ IF ok /\ annCalls[i].id \in Ids(serverAnns)
       THEN LET new == Patched(Find(serverAnns, annCalls[i].id), annCalls[i].body[1])
            IN  /\ serverAnns' = [j \in 1..Len(serverAnns) |->
                                     IF serverAnns[j].id = annCalls[i].id THEN new
                                     ELSE serverAnns[j]]
                /\ Answer(i, "ok", Some(new))
       ELSE /\ Answer(i, "err", Null)
            /\ UNCHANGED serverAnns
    /\ UNCHANGED <<readVars, persistVars, gestVars, annotations, nextId, envVars, hist, nZoom>>

ServeDelete(i, ok) ==
    /\ Sent(i, "delete")
    /\ IF ok
       THEN /\ serverAnns' = SelectSeq(serverAnns, LAMBDA a : a.id # annCalls[i].id)
            /\ Answer(i, "ok", Null)
       ELSE /\ Answer(i, "err", Null)
            /\ UNCHANGED serverAnns
    /\ UNCHANGED <<readVars, persistVars, gestVars, annotations, nextId, envVars, hist, nZoom>>

\* A call has resumed: the pointer session under way is no longer undisturbed.
Disturbed == IF press.active \/ press.left THEN [press EXCEPT !.quiet = FALSE] ELSE press

\* loadAnnotations after the await: setAnnotations(data); the catch logs.
LoadAnnotationsResume(i) ==
    /\ Answered(i, "list")
    /\ annCalls' = RemoveAt(annCalls, i)
    /\ annotations' = IF mounted /\ annCalls[i].status = "ok"
                      THEN annCalls[i].result[1] ELSE annotations
    /\ press' = Disturbed
    /\ UNCHANGED <<readVars, persistVars, gestVars, serverAnns, nextId,
                   pointer, button, downTarget, nMoves, nPresses, hist, nZoom>>

\* createAnnotation after the await (append the response; the catch returns
\* null), then handleMouseUp after its await: a created text box enters
\* edit mode, and the creation state is cleared either way.
\* handleMouseUp after the await, text branch: if (newAnnotation)
\* setEditingTextBox(newAnnotation.id).
EditingKept(type, newAnnotation, editing) == editing
EditingAfterCreate(type, newAnnotation, editing) ==
    IF type = "text" /\ newAnnotation # Null THEN newAnnotation[1].id ELSE editing

CreateAnnotationResume(i) ==
    /\ Answered(i, "create")
    /\ annCalls' = RemoveAt(annCalls, i)
    /\ LET c == annCalls[i]
           created == mounted /\ c.status = "ok"
       IN  /\ annotations' = IF created THEN Append(annotations, c.result[1]) ELSE annotations
           /\ editingTextBox' = EditingAfterCreate(c.args[1].type,
                                                   IF created THEN c.result ELSE Null,
                                                   editingTextBox)
    /\ IF mounted
       THEN /\ isCreatingAnnotation' = FALSE
            /\ annotationStart' = Null
            /\ annotationEnd' = Null
       ELSE UNCHANGED createVars
    /\ press' = Disturbed
    /\ UNCHANGED <<readVars, persistVars, annotationMode, highlightColor, draggingAnnotation,
                   resizingTextBox, textBoxClickTimeRef, longPressTimers, selectVars,
                   serverAnns, nextId, pointer, button, downTarget, nMoves, nPresses, hist, nZoom>>

\* updateAnnotationPosition / updateTextBoxContent / updateTextBoxSize after
\* the await: the response replaces the local entity; the catch logs.
UpdateAnnotationResume(i) ==
    /\ Answered(i, "update")
    /\ annCalls' = RemoveAt(annCalls, i)
    /\ annotations' = IF mounted /\ annCalls[i].status = "ok"
                      THEN ReplaceById(annotations, annCalls[i].id, annCalls[i].result[1])
                      ELSE annotations
    /\ press' = Disturbed
    /\ hist' = IF mounted /\ annCalls[i].status = "ok" /\ annCalls[i].id \in hist.removed
               THEN [hist EXCEPT !.late = @ \cup {annCalls[i].id}]
               ELSE hist
    /\ UNCHANGED <<readVars, persistVars, gestVars, serverAnns, nextId,
                   pointer, button, downTarget, nMoves, nPresses, nZoom>>

\* deleteAnnotation after the await: the entity is filtered out of the local
\* list; the catch logs.  The await throws unless the call succeeded.
DeleteResolvedAlways(status) == TRUE
DeleteResolved(status) == status = "ok"

DeleteAnnotationResume(i) ==
    /\ Answered(i, "delete")
    /\ annCalls' = RemoveAt(annCalls, i)
    /\ annotations' = IF mounted /\ DeleteResolved(annCalls[i].status)
                      THEN RemoveById(annotations, annCalls[i].id)
                      ELSE annotations
    /\ press' = Disturbed
    /\ hist' = LET h == IF annCalls[i].id \notin Ids(annotations)
                        THEN [hist EXCEPT !.redeleted = @ \cup {annCalls[i].id}]
                        ELSE hist
               IN  IF mounted /\ DeleteResolved(annCalls[i].status)
                   THEN [h EXCEPT !.removed = @ \cup {annCalls[i].id}]
                   ELSE h
    /\ UNCHANGED <<readVars, persistVars, gestVars, serverAnns, nextId,
                   pointer, button, downTarget, nMoves, nPresses, nZoom>>

----------------------------------------------------------------------------
\* The pointer session, for history: what the press began, where and when,
\* whether the pointer has moved and has moved beyond the commit threshold,
\* whether no call has resumed since, the annotations at the press, and
\* whether the press ended by the pointer leaving the document or follows a
\* press that did.
IdlePress ==
    [active |-> FALSE, kind |-> "none", id |-> 0, at |-> [x |-> 0, y |-> 0],
     elapsed |-> 0, moved |-> FALSE, over |-> FALSE, quiet |-> TRUE, geom |-> <<>>,
     left |-> FALSE, after |-> FALSE]

\* The squared displacement between two client points: in tenths of a
\* percent of the page, and in pixels.
PercentDistSq(from, to, s) ==
    LET r == PageRect(1, s, 0)
        dx == DeltaPercent(to.x - from.x, r.width)
        dy == DeltaPercent(to.y - from.y, r.height)
    IN  dx * dx + dy * dy

PixelDistSq(from, to) ==
    (to.x - from.x) * (to.x - from.x) + (to.y - from.y) * (to.y - from.y)

OverThreshold(kind, from, to, s) ==
    IF kind = "screenshot" THEN PixelDistSq(from, to) > SelectThresholdSq
    ELSE PercentDistSq(from, to, s) > CreateThresholdSq

\* The React event of a pointer position.
Event(pt) == [clientX |-> pt.x, clientY |-> pt.y, target |-> TargetAt(pt)]

\* onBlur of the textarea: updateTextBoxContent(annotation.id, e.target.value)
\* and setEditingTextBox(null).  The value is what the user has typed.
OnBlur(text) == <<UpdateTextBoxContent(editingTextBox, text)>>

\* Which handler takes a mousedown: handleResizeStart on a handle (it stops
\* propagation), nothing on the textarea (it stops propagation),
\* handleAnnotationMouseDown on a text box in mode "none" (it stops
\* propagation; on a highlight it returns and the event goes on), and
\* handleMouseDown of the document container otherwise:
\* it blurs the textarea while a text box is edited, records the start of a
\* creation in an annotation mode when the target is on a page, and records
\* the start of a screenshot selection in mode "none".
DownPath(target) ==
    IF target.kind = "handle" THEN "resize"
    ELSE IF target.kind = "textarea" THEN "textarea"
    ELSE IF /\ target.kind = "annotation" /\ annotationMode = "none"
            /\ Find(annotations, target.id).annotation_type = "text" THEN "text"
    ELSE IF editingTextBox # 0 THEN "blur"
    ELSE IF annotationMode # "none" THEN (IF target.page > 0 THEN "create" ELSE "nopage")
    ELSE "screenshot"

OnMouseDown(text) ==
    /\ mounted /\ totalPages > 0
    /\ button = "up"
    /\ nPresses' = nPresses + 1
    /\ LET e == Event(pointer)
           path == DownPath(e.target)
           r == PageRect(e.target.page, scale, scrollTop)
           c == ContainerRect(scale, scrollTop)
           \* the textarea loses focus: by blur() in handleMouseDown, or by
           \* the browser when a text box is pressed
           blurs == editingTextBox # 0 /\ path \in {"blur", "text"}
       IN  /\ button' = "left"
           /\ downTarget' = e.target
           /\ press' = [active |-> TRUE, kind |-> path, id |-> e.target.id, at |-> pointer,
                        elapsed |-> 0, moved |-> FALSE, over |-> FALSE, quiet |-> TRUE,
                        geom |-> annotations, left |-> FALSE, after |-> press.left]
           \* handleResizeStart
           /\ resizingTextBox' =
                 IF path = "resize"
                 THEN Some([id |-> e.target.id, corner |-> e.target.corner,
                            startX |-> e.clientX, startY |-> e.clientY])
                 ELSE resizingTextBox
           \* handleAnnotationMouseDown
           /\ textBoxClickTimeRef' =
                 IF path = "text" THEN Some([id |-> e.target.id, elapsed |-> 0])
                 ELSE textBoxClickTimeRef
           /\ longPressTimers' =
                 IF path = "text"
                 THEN ClearTimeoutRef(longPressTimers) \cup
                         {[remaining |-> LongPressDelay, id |-> e.target.id,
                           startX |-> e.clientX, startY |-> e.clientY, ref |-> TRUE]}
                 ELSE longPressTimers
           \* onBlur
           /\ editingTextBox' = IF blurs THEN 0 ELSE editingTextBox
           /\ IF blurs THEN Send(OnBlur(text)) ELSE UNCHANGED annCalls
           \* handleMouseDown
           /\ IF path = "create"
              THEN /\ annotationStart' = Some([x |-> ToPercent(e.clientX, r.left, r.width),
                                               y |-> ToPercent(e.clientY, r.top, r.height),
                                               pageNumber |-> e.target.page])
                   /\ annotationEnd' = Null
                   /\ isCreatingAnnotation' = FALSE
              ELSE UNCHANGED createVars
           /\ IF path = "screenshot"
              THEN /\ selectionStart' = Some([x |-> e.clientX - c.left, y |-> e.clientY - c.top])
                   /\ selectionEnd' = Null
              ELSE UNCHANGED <<selectionStart, selectionEnd>>
    /\ UNCHANGED <<readVars, persistVars, annotationMode, highlightColor, draggingAnnotation,
                   isSelecting, screenshotPreview, annotations, serverAnns, nextId,
                   pointer, nMoves, hist, nZoom>>

\* A pointer-down, while the user has presses left.
MouseDown(text) == nPresses < MaxPresses /\ OnMouseDown(text)

\* handleMouseMove: the creation preview, or else the screenshot selection.
\* The handler reads isCreatingAnnotation and isSelecting of the last render.
HandleMouseMove(e) ==
    LET page == PageUnder([x |-> e.clientX, y |-> e.clientY], totalPages, scale, scrollTop)
        r == PageRect(page, scale, scrollTop)
        x == ToPercent(e.clientX, r.left, r.width)
        y == ToPercent(e.clientY, r.top, r.height)
        deltaX == Abs(x - annotationStart[1].x)
        deltaY == Abs(y - annotationStart[1].y)
        committed == deltaX * deltaX + deltaY * deltaY > CreateThresholdSq
        c == ContainerRect(scale, scrollTop)
        currentPos == [x |-> e.clientX - c.left, y |-> e.clientY - c.top]
        selecting == PixelDistSq(selectionStart[1], currentPos) > SelectThresholdSq
        same == [isCreatingAnnotation |-> isCreatingAnnotation, annotationEnd |-> annotationEnd,
                 isSelecting |-> isSelecting, selectionEnd |-> selectionEnd]
    IN  IF annotationStart # Null /\ annotationMode # "none"
        THEN IF page = 0 THEN same
             ELSE [same EXCEPT
                     !.isCreatingAnnotation = isCreatingAnnotation \/ committed,
                     !.annotationEnd = IF isCreatingAnnotation \/ committed
                                       THEN Some([x |-> x, y |-> y]) ELSE annotationEnd]
        ELSE IF selectionStart # Null
        THEN [same EXCEPT
                !.isSelecting = isSelecting \/ selecting,
                !.selectionEnd = IF isSelecting THEN Some(currentPos) ELSE selectionEnd]
        ELSE same

\* handleResizeMove: the new geometry of the text box being resized.
Resized(ann, corner, dx, dy) ==
    LET newX == IF corner \in {"sw", "nw"} THEN Max(0, ann.x + dx) ELSE ann.x
        newY == IF corner \in {"ne", "nw"} THEN Max(0, ann.y + dy) ELSE ann.y
        w == IF corner \in {"se", "ne"} THEN Max(MinTextSize, ann.width + dx)
             ELSE Max(MinTextSize, ann.width - dx)
        h == IF corner \in {"se", "sw"} THEN Max(MinTextSize, ann.height + dy)
             ELSE Max(MinTextSize, ann.height - dy)
        newWidth == IF newX + w > Full THEN Full - newX ELSE w
        newHeight == IF newY + h > Full THEN Full - newY ELSE h
    IN  [ann EXCEPT !.x = newX, !.y = newY, !.width = newWidth, !.height = newHeight]

\* handleDocumentMouseMove, drag branch: the new position of the annotation.
Dragged(ann, dx, dy) ==
    [ann EXCEPT !.x = Max(0, Min(Full - ann.width, ann.x + dx)),
                !.y = Max(0, Min(Full - ann.height, ann.y + dy))]

\* handleDocumentMouseMove: handleResizeMove while a text box is resized,
\* or else the drag of an annotation.
HandleDocumentMouseMove(e) ==
    LET same == [annotations |-> annotations, resizingTextBox |-> resizingTextBox,
                 draggingAnnotation |-> draggingAnnotation]
        s == IF resizingTextBox # Null THEN resizingTextBox[1] ELSE draggingAnnotation[1]
        ann == Find(annotations, s.id)
        r == PageRect(ann.page_number, scale, scrollTop)
        dx == DeltaPercent(e.clientX - s.startX, r.width)
        dy == DeltaPercent(e.clientY - s.startY, r.height)
        started == [s EXCEPT !.startX = e.clientX, !.startY = e.clientY]
    IN  IF resizingTextBox # Null
        THEN IF s.id \notin Ids(annotations) \/ ann.page_number > totalPages THEN same
             ELSE [same EXCEPT
                     !.annotations = ReplaceById(annotations, s.id, Resized(ann, s.corner, dx, dy)),
                     !.resizingTextBox = Some(started)]
        ELSE IF draggingAnnotation # Null
        THEN IF s.id \notin Ids(annotations) \/ ann.page_number > totalPages THEN same
             ELSE [same EXCEPT
                     !.annotations = ReplaceById(annotations, s.id, Dragged(ann, dx, dy)),
                     !.draggingAnnotation = Some(started)]
        ELSE same

\* onMouseMove of the document container: handleMouseMove(e), then
\* handleDocumentMouseMove(e).
OnMouseMove(pt) ==
    /\ mounted /\ totalPages > 0
    /\ pt # pointer
    /\ nMoves' = nMoves + 1
    /\ pointer' = pt
    /\ LET e == Event(pt)
           a == HandleMouseMove(e)
           b == HandleDocumentMouseMove(e)
       IN  /\ isCreatingAnnotation' = a.isCreatingAnnotation
           /\ annotationEnd' = a.annotationEnd
           /\ isSelecting' = a.isSelecting
           /\ selectionEnd' = a.selectionEnd
           /\ annotations' = b.annotations
           /\ resizingTextBox' = b.resizingTextBox
           /\ draggingAnnotation' = b.draggingAnnotation
    /\ press' = IF press.active
                THEN [press EXCEPT !.moved = TRUE,
                        !.over = @ \/ OverThreshold(press.kind, press.at, pt, scale)]
                ELSE press
    /\ UNCHANGED <<readVars, persistVars, annotationMode, highlightColor, annotationStart,
                   editingTextBox, textBoxClickTimeRef, longPressTimers, selectionStart,
                   screenshotPreview, serverAnns, nextId, annCalls, button, downTarget,
                   nPresses, hist, nZoom>>

\* A pointer move, while the user has moves left.
MouseMove(pt) == nMoves < MaxMoves /\ OnMouseMove(pt)

\* The pointer leaves the document container with the button down and the
\* button is released outside it, or the window loses focus during the
\* press: the container has onMouseDown, onMouseMove and onMouseUp only and
\* the component listens to no blur, so no handler runs.
PointerLeave ==
    /\ mounted /\ totalPages > 0
    /\ button = "left"
    /\ button' = "up"
    /\ downTarget' = NoTarget
    /\ press' = [press EXCEPT !.active = FALSE, !.left = TRUE]
    /\ UNCHANGED <<readVars, persistVars, gestVars, annVars, pointer, nMoves, nPresses,
                   hist, nZoom>>

\* handleMouseUp, creation branch: the height of a new highlight.
SameHeight(height) == height
HighlightHeight(height) == Max(height, MinHighlightHeight)

\* handleMouseUp, creation branch: the createAnnotation calls it makes.
CreationCalls ==
    IF isCreatingAnnotation /\ annotationEnd # Null
    THEN LET from == annotationStart[1]
             to == annotationEnd[1]
             startX == Min(from.x, to.x)
             startY == Min(from.y, to.y)
             width == Abs(to.x - from.x)
             height == Abs(to.y - from.y)
         IN  IF width > MinCreateSize
             THEN IF annotationMode = "highlight"
                  THEN <<CreateAnnotation("highlight", from.pageNumber, startX, startY, width,
                                          HighlightHeight(height), Some(highlightColor), Null)>>
                  ELSE IF height > MinCreateSize
                  THEN <<CreateAnnotation("text", from.pageNumber, startX, startY, width,
                                          height, Null, Some(""))>>
                  ELSE <<>>
             ELSE <<>>
    ELSE <<>>

\* handleMouseUp, screenshot branch: a canvas of a page overlaps the selection.
OverlapsAlways(x, y, width, height) == TRUE
Overlaps(x, y, width, height) ==
    \E p \in 1..totalPages :
        LET canvasRect == PageRect(p, scale, scrollTop)
            c == ContainerRect(scale, scrollTop)
        IN  /\ c.left + x < canvasRect.left + canvasRect.width
            /\ c.left + x + width > canvasRect.left
            /\ c.top + y < canvasRect.top + canvasRect.height
            /\ c.top + y + height > canvasRect.top

\* handleMouseUp, screenshot branch: the selection rectangle, and whether the
\* capture is attempted (the branch is reached and the rectangle is larger
\* than 10 x 10 px).
SelectionRect ==
    [x |-> Min(selectionStart[1].x, selectionEnd[1].x),
     y |-> Min(selectionStart[1].y, selectionEnd[1].y),
     width |-> Abs(selectionEnd[1].x - selectionStart[1].x),
     height |-> Abs(selectionEnd[1].y - selectionStart[1].y)]

CaptureInvoked ==
    /\ ~(annotationStart # Null /\ annotationMode # "none")
    /\ screenshotPreview = Null
    /\ isSelecting /\ selectionStart # Null /\ selectionEnd # Null
    /\ SelectionRect.width > MinShot /\ SelectionRect.height > MinShot

\* handleMouseUp up to its first await: the creation state, the screenshot
\* state and the calls sent.  (handleTextSelection, which it ends with,
\* concerns the text-selection menu and is left out.)
HandleMouseUp ==
    LET same == [isCreatingAnnotation |-> isCreatingAnnotation,
                 annotationStart |-> annotationStart, annotationEnd |-> annotationEnd,
                 screenshotPreview |-> screenshotPreview, isSelecting |-> isSelecting,
                 selectionStart |-> selectionStart, selectionEnd |-> selectionEnd,
                 calls |-> <<>>]
        startX == Min(selectionStart[1].x, selectionEnd[1].x)
        startY == Min(selectionStart[1].y, selectionEnd[1].y)
        width == Abs(selectionEnd[1].x - selectionStart[1].x)
        height == Abs(selectionEnd[1].y - selectionStart[1].y)
    IN  IF annotationStart # Null /\ annotationMode # "none"
        THEN IF CreationCalls # <<>>
             THEN [same EXCEPT !.calls = CreationCalls]
             ELSE [same EXCEPT !.isCreatingAnnotation = FALSE,
                               !.annotationStart = Null, !.annotationEnd = Null]
        ELSE IF screenshotPreview # Null
        THEN [same EXCEPT !.screenshotPreview = Null]
        ELSE IF isSelecting /\ selectionStart # Null /\ selectionEnd # Null
        THEN IF CaptureInvoked
             THEN IF Overlaps(startX, startY, width, height)
                  THEN [same EXCEPT !.isSelecting = FALSE,
                          !.screenshotPreview = Some([x |-> startX, y |-> startY,
                                                      width |-> width, height |-> height]),
                          !.selectionStart = Null, !.selectionEnd = Null]
                  ELSE [same EXCEPT !.isSelecting = FALSE]
             ELSE [same EXCEPT !.isSelecting = FALSE,
                               !.selectionStart = Null, !.selectionEnd = Null]
        ELSE IF selectionStart # Null
        THEN [same EXCEPT !.selectionStart = Null, !.selectionEnd = Null]
        ELSE same

\* handleAnnotationMouseUp: handleResizeEnd while a text box is resized, or
\* else the end of a drag; the update call of either.
HandleAnnotationMouseUp ==
    LET s == IF resizingTextBox # Null THEN resizingTextBox[1] ELSE draggingAnnotation[1]
        ann == Find(annotations, s.id)
    IN  IF resizingTextBox # Null
        THEN IF s.id \in Ids(annotations)
             THEN <<UpdateTextBoxSize(ann.id, ann.x, ann.y, ann.width, ann.height)>>
             ELSE <<>>
        ELSE IF draggingAnnotation # Null /\ s.id \in Ids(annotations)
        THEN <<UpdateAnnotationPosition(ann.id, ann.x, ann.y)>>
        ELSE <<>>

\* onClick of an annotation: a click shorter than the long press on a text
\* box that is not edited.
QuickAlways(elapsed) == TRUE
Quick(elapsed) == elapsed < LongPressDelay

EntersEdit(id) ==
    /\ id \in Ids(annotations)
    /\ Find(annotations, id).annotation_type = "text"
    /\ editingTextBox # id
    /\ textBoxClickTimeRef # Null
    /\ textBoxClickTimeRef[1].id = id
    /\ Quick(textBoxClickTimeRef[1].elapsed)

\* The browser raises click on the annotation that holds both the element the
\* button went down on and the one it goes up on, unless both are the
\* textarea (its onClick stops the event).
ClickedAnnotation(down, up) ==
    IF /\ down.id # 0 /\ down.id = up.id
       /\ ~(down.kind = "textarea" /\ up.kind = "textarea")
       /\ down.id \in Ids(annotations)
    THEN down.id ELSE 0

\* The drag a creation call came from, for history: the page and position of
\* the press and the position of the release, when on the same page.
DragOf(from, to) ==
    LET p == PageUnder(from, totalPages, scale, scrollTop)
        r == PageRect(p, scale, scrollTop)
    IN  IF p > 0 /\ PageUnder(to, totalPages, scale, scrollTop) = p
        THEN Some([page |-> p,
                   x0 |-> ToPercent(from.x, r.left, r.width),
                   y0 |-> ToPercent(from.y, r.top, r.height),
                   x1 |-> ToPercent(to.x, r.left, r.width),
                   y1 |-> ToPercent(to.y, r.top, r.height)])
        ELSE Null

\* onMouseUp of the document container: handleMouseUp(e), then
\* handleAnnotationMouseUp(); then the click the browser raises.
MouseUp ==
    /\ mounted /\ totalPages > 0
    /\ button = "left"
    /\ button' = "up"
    /\ downTarget' = NoTarget
    /\ press' = IdlePress
    /\ LET a == HandleMouseUp
           drag == IF press.kind = "create" THEN DragOf(press.at, pointer) ELSE Null
           creates == [j \in 1..Len(a.calls) |-> [a.calls[j] EXCEPT !.drag = drag]]
           clicked == ClickedAnnotation(downTarget, TargetAt(pointer))
           isText == clicked # 0 /\ Find(annotations, clicked).annotation_type = "text"
                                /\ editingTextBox # clicked
           edit == clicked # 0 /\ EntersEdit(clicked)
       IN  /\ isCreatingAnnotation' = a.isCreatingAnnotation
           /\ annotationStart' = a.annotationStart
           /\ annotationEnd' = a.annotationEnd
           /\ screenshotPreview' = a.screenshotPreview
           /\ isSelecting' = a.isSelecting
           /\ selectionStart' = a.selectionStart
           /\ selectionEnd' = a.selectionEnd
           /\ Send(creates \o HandleAnnotationMouseUp)
           /\ resizingTextBox' = Null
           /\ draggingAnnotation' = IF resizingTextBox # Null THEN draggingAnnotation ELSE Null
           \* onClick
           /\ editingTextBox' = IF edit THEN clicked ELSE editingTextBox
           /\ annotationMode' = IF edit THEN "none" ELSE annotationMode
           /\ longPressTimers' = IF edit THEN ClearTimeoutRef(longPressTimers)
                                 ELSE longPressTimers
           /\ textBoxClickTimeRef' = IF isText THEN Null ELSE textBoxClickTimeRef
    /\ UNCHANGED <<readVars, persistVars, highlightColor, annotations, serverAnns, nextId,
                   pointer, nMoves, nPresses, hist, nZoom>>

\* The 300 ms timer of handleAnnotationMouseDown fires: the press is a long
\* press if the click-time ref still names the annotation.
LongPressFires(t) ==
    /\ t \in longPressTimers
    /\ t.remaining = 0
    /\ longPressTimers' = longPressTimers \ {t}
    /\ draggingAnnotation' =
          IF mounted /\ textBoxClickTimeRef # Null /\ textBoxClickTimeRef[1].id = t.id
          THEN Some([id |-> t.id, startX |-> t.startX, startY |-> t.startY])
          ELSE draggingAnnotation
    /\ UNCHANGED <<readVars, persistVars, annotationMode, highlightColor, createVars,
                   resizingTextBox, editingTextBox, textBoxClickTimeRef, selectVars,
                   annVars, envVars, hist, nZoom>>

\* onContextMenu of an annotation (also reached from its textarea and its
\* handles): a text box, or a highlight in highlight mode, is deleted after
\* window.confirm.
ContextMenu(confirm) ==
    /\ mounted /\ totalPages > 0
    /\ button = "up"
    /\ LET target == TargetAt(pointer)
       IN  /\ target.id \in Ids(annotations)
           /\ \/ Find(annotations, target.id).annotation_type = "text"
              \/ annotationMode = "highlight"
           /\ IF confirm THEN Send(<<DeleteAnnotation(target.id)>>) ELSE UNCHANGED annCalls
    /\ UNCHANGED <<readVars, persistVars, gestVars, annotations, serverAnns, nextId,
                   envVars, hist, nZoom>>

\* The mode buttons of the toolbar: setAnnotationMode(mode).  Pressing a
\* button takes the focus from the textarea of a text box being edited.
SetAnnotationMode(mode, text) ==
    /\ mounted
    /\ button = "up"
    /\ annotationMode' = mode
    /\ editingTextBox' = 0
    /\ IF editingTextBox # 0 THEN Send(OnBlur(text))
       ELSE (mode # annotationMode /\ UNCHANGED annCalls)
    /\ UNCHANGED <<readVars, persistVars, highlightColor, createVars, draggingAnnotation,
                   resizingTextBox, textBoxClickTimeRef, longPressTimers, selectVars,
                   annotations, serverAnns, nextId, envVars, hist, nZoom>>

\* The colour <select>, shown in highlight mode: setHighlightColor(value).
SetHighlightColor(color) ==
    /\ mounted
    /\ button = "up"
    /\ annotationMode = "highlight"
    /\ color # highlightColor
    /\ highlightColor' = color
    /\ UNCHANGED <<readVars, persistVars, annotationMode, createVars, draggingAnnotation,
                   resizingTextBox, editingTextBox, textBoxClickTimeRef, longPressTimers,
                   selectVars, annVars, envVars, hist, nZoom>>

\* The render conditions of the annotation preview box (on the page of the
\* anchor) and of the screenshot selection box.
PreviewBoxVisible ==
    /\ isCreatingAnnotation /\ annotationStart # Null /\ annotationEnd # Null
    /\ annotationStart[1].pageNumber \in 1..totalPages

SelectionBoxVisible == isSelecting /\ selectionStart # Null /\ selectionEnd # Null

\* handleCancelScreenshot: setScreenshotPreview(null).
HandleCancelScreenshot ==
    /\ mounted
    /\ button = "up"
    /\ screenshotPreview # Null
    /\ screenshotPreview' = Null
    /\ UNCHANGED <<readVars, persistVars, annotationMode, highlightColor, createVars,
                   draggingAnnotation, resizingTextBox, editingTextBox, textBoxClickTimeRef,
                   longPressTimers, selectionStart, selectionEnd, isSelecting,
                   annVars, envVars, hist, nZoom>>


----------------------------------------------------------------------------
\* Reading states the backend may hold when the viewer opens: the default of
\* an absent record, and records saved by earlier sessions.
StoredStates ==
    { [current_page |-> 1, scroll_position |-> <<0, 1>>, zoom_level |-> ZoomDefault],
      [current_page |-> 1, scroll_position |-> <<20, 1>>, zoom_level |-> 60],
      [current_page |-> 2, scroll_position |-> <<50, 1>>, zoom_level |-> 290] }

\* Scroll positions the user scrolls to (px), besides the two ends.
ScrollTargets == {0, 300}

\* The components beside the viewer at rest: no selection to crop, no
\* conversation in the chat panel, no streaming message, no upload.
CropIdle ==
    /\ cropInput = Null
    /\ screenshotCanvas = Null

ChatIdle ==
    /\ conversationId = 0
    /\ messages = <<>>
    /\ isLoading = FALSE
    /\ chatCalls = <<>>
    /\ serverMessages = <<>>
    /\ nSubmits = 0
    /\ nSwitches = 0

TypewriterIdle ==
    /\ textProp = <<>>
    /\ displayedText = <<>>
    /\ textRef = <<>>
    /\ indexRef = 0
    /\ animationRef = FALSE
    /\ lastUpdateRef = 0

PollIdle ==
    /\ attempts = 0
    /\ pollTimers = 0
    /\ statusCalls = <<>>
    /\ vectorization = "pending"
    /\ conversationPdfs = "pending"
    /\ pollHist = [requests |-> 0, ended |-> FALSE]

\* The state after the first render and its effects: the effect on
\* [scale, saveReadingState] has called saveReadingState() once.
Init ==
    /\ CropIdle /\ ChatIdle /\ TypewriterIdle /\ PollIdle
    /\ mounted = TRUE
    /\ scale = ZoomDefault
    /\ currentPage = 1
    /\ totalPages = 0
    /\ scrollTop = 0
    /\ saveTimers = SaveReadingState({}, 1, ZoomDefault)
    /\ restoreTimers = {}
    /\ stored \in StoredStates
    /\ readCalls = {}
    /\ saveCalls = {}
    /\ hist = [unsaved |-> TRUE, since |-> 0, saves |-> 0, burst |-> 1,
               snapshot |-> Snapshot(1, ZoomDefault, 0, 0), redeleted |-> {},
               removed |-> {}, late |-> {}]
    /\ nZoom = 0
    /\ annotations = <<>>
    /\ serverAnns = <<T1>>
    /\ nextId = 2
    /\ annCalls = <<>>
    /\ annotationMode = "none"
    /\ highlightColor = "yellow"
    /\ isCreatingAnnotation = FALSE
    /\ annotationStart = Null
    /\ annotationEnd = Null
    /\ draggingAnnotation = Null
    /\ resizingTextBox = Null
    /\ editingTextBox = 0
    /\ textBoxClickTimeRef = Null
    /\ longPressTimers = {}
    /\ selectionStart = Null
    /\ selectionEnd = Null
    /\ isSelecting = FALSE
    /\ screenshotPreview = Null
    /\ pointer = ClientPoint(1, 60, 100, ZoomDefault)
    /\ button = "up"
    /\ downTarget = NoTarget
    /\ press = IdlePress
    /\ nMoves = 0
    /\ nPresses = 0

----------------------------------------------------------------------------
\* The scroll listener: the user scrolls the container to another position.
HandleScroll(st) ==
    /\ mounted
    /\ st # scrollTop
    /\ st = ClampScroll(st, totalPages, scale)
    /\ scrollTop' = st
    /\ saveTimers' = SaveReadingState(saveTimers, currentPage, scale)
    /\ hist' = NoteEvent(currentPage, scale, st, totalPages)
    /\ UNCHANGED <<gestVars, annVars, envVars, mounted, scale, currentPage, totalPages, restoreTimers, persistVars, nZoom>>

\* A zoom button: setScale(f(prev)); when the scale changed, the component
\* renders again (the browser re-clamps scrollTop) and the effect on
\* [scale, saveReadingState] calls saveReadingState().
SetScale(s) ==
    /\ nZoom < MaxZooms
    /\ nZoom' = nZoom + 1
    /\ scale' = s
    /\ scrollTop' = ClampScroll(scrollTop, totalPages, s)
    /\ IF s # scale
       THEN /\ saveTimers' = SaveReadingState(saveTimers, currentPage, s)
            /\ hist' = NoteEvent(currentPage, s, scrollTop', totalPages)
       ELSE UNCHANGED <<saveTimers, hist>>

HandleZoomIn ==
    /\ mounted
    /\ ~(scale >= ZoomMax)                \* disabled={scale >= 3.0}
    /\ SetScale(ZoomIn(scale))
    /\ UNCHANGED <<gestVars, annVars, envVars, mounted, currentPage, totalPages, restoreTimers, persistVars>>

HandleZoomOut ==
    /\ mounted
    /\ ~(scale <= ZoomMin)                \* disabled={scale <= 0.5}
    /\ SetScale(ZoomOut(scale))
    /\ UNCHANGED <<gestVars, annVars, envVars, mounted, currentPage, totalPages, restoreTimers, persistVars>>

HandleZoomReset ==
    /\ mounted
    /\ SetScale(ZoomReset(scale))
    /\ UNCHANGED <<gestVars, annVars, envVars, mounted, currentPage, totalPages, restoreTimers, persistVars>>

\* onDocumentLoadSuccess: setTotalPages, then loadReadingState() issues the
\* getReadingState call and loadAnnotations() the getAnnotations call.
OnDocumentLoadSuccess ==
    /\ mounted
    /\ totalPages = 0
    /\ Cardinality(readCalls) < MaxCalls
    /\ totalPages' = NumPages
    /\ readCalls' = readCalls \cup {[status |-> "sent", state |-> stored]}
    /\ annCalls' = Append(annCalls, ListCall)
    /\ UNCHANGED <<gestVars, annotations, serverAnns, nextId, envVars, mounted, scale, currentPage, scrollTop, saveTimers, restoreTimers,
                   stored, saveCalls, hist, nZoom>>

\* The backend answers a getReadingState call with the record it holds, or
\* the call fails.
ServeRead(c, ok) ==
    /\ c \in readCalls
    /\ c.status = "sent"
    /\ readCalls' = (readCalls \ {c}) \cup
           {[status |-> IF ok THEN "ok" ELSE "err", state |-> stored]}
    /\ UNCHANGED <<gestVars, annVars, envVars, readVars, stored, saveCalls, hist, nZoom>>

\* loadReadingState after the await: setCurrentPage, setScale,
\* setScrollPosition and the 500 ms timer that restores the scroll position
\* (the catch branch only logs).  When currentPage or scale changed, the next
\* render creates a new saveReadingState and the effect on it calls it.  On
\* an unmounted component the setters do nothing; the timer is still set.
LoadReadingStateResume(c) ==
    /\ c \in readCalls
    /\ c.status # "sent"
    /\ readCalls' = readCalls \ {c}
    /\ IF c.status = "ok"
       THEN /\ restoreTimers' = restoreTimers \cup
                   {[remaining |-> RestoreDelay, scroll_position |-> c.state.scroll_position]}
            /\ IF mounted
               THEN /\ currentPage' = c.state.current_page
                    /\ scale' = c.state.zoom_level
                    /\ scrollTop' = ClampScroll(scrollTop, totalPages, scale')
                    /\ IF currentPage' # currentPage \/ scale' # scale
                       THEN /\ saveTimers' = SaveReadingState(saveTimers, currentPage', scale')
                            /\ hist' = NoteEvent(currentPage', scale', scrollTop', totalPages)
                       ELSE UNCHANGED <<saveTimers, hist>>
               ELSE UNCHANGED <<currentPage, scale, scrollTop, saveTimers, hist>>
       ELSE UNCHANGED <<currentPage, scale, scrollTop, saveTimers, restoreTimers, hist>>
    /\ UNCHANGED <<gestVars, annVars, envVars, mounted, totalPages, stored, saveCalls, nZoom>>

\* The 500 ms timer of loadReadingState fires: scrollTop is set from the
\* stored percentage; a changed scrollTop raises a scroll event.
RestoreScroll(t) ==
    /\ t \in restoreTimers
    /\ t.remaining = 0
    /\ restoreTimers' = restoreTimers \ {t}
    /\ IF mounted
       THEN /\ scrollTop' = TargetScroll(t.scroll_position, totalPages, scale)
            /\ IF scrollTop' # scrollTop
               THEN /\ saveTimers' = SaveReadingState(saveTimers, currentPage, scale)
                    /\ hist' = NoteEvent(currentPage, scale, scrollTop', totalPages)
               ELSE UNCHANGED <<saveTimers, hist>>
       ELSE UNCHANGED <<scrollTop, saveTimers, hist>>
    /\ UNCHANGED <<gestVars, annVars, envVars, mounted, scale, currentPage, totalPages, persistVars, nZoom>>

\* The debounce timer of saveReadingState fires: the callback reads the
\* container and issues the save call with the page and scale it closed over.
SaveTimerFires(t) ==
    /\ t \in saveTimers
    /\ t.remaining = 0
    /\ saveTimers' = saveTimers \ {t}
    /\ IF mounted
       THEN LET sh == ScrollHeight(totalPages, scale)
                payload == [current_page |-> t.page,
                            scroll_position |-> ScrollPercent(scrollTop, sh, ClientHeight),
                            zoom_level |-> t.zoom]
            IN  /\ Cardinality(saveCalls) < MaxCalls
                /\ saveCalls' = saveCalls \cup {payload}
                /\ hist' = [hist EXCEPT !.unsaved = FALSE, !.saves = Min(@ + 1, 2)]
       ELSE UNCHANGED <<saveCalls, hist>>
    /\ UNCHANGED <<gestVars, annVars, envVars, mounted, scale, currentPage, totalPages, scrollTop, restoreTimers,
                   stored, readCalls, nZoom>>

\* The backend stores the payload of a save call (upsert) or the call fails;
\* the timer callback after the await only logs, on success and on failure.
SaveReadingStateResume(c, ok) ==
    /\ c \in saveCalls
    /\ saveCalls' = saveCalls \ {c}
    /\ stored' = IF ok THEN c ELSE stored
    /\ UNCHANGED <<gestVars, annVars, envVars, readVars, readCalls, hist, nZoom>>

\* The cleanup of the unmount effect: clearTimeout(saveTimeoutRef.current).
UnmountSaving ==
    /\ mounted
    /\ mounted' = FALSE
    /\ saveTimers' = ClearTimeoutRef(saveTimers)
    /\ saveCalls' = saveCalls \cup
          {[current_page |-> t.page,
            scroll_position |-> ScrollPercent(scrollTop, ScrollHeight(totalPages, scale),
                                              ClientHeight),
            zoom_level |-> t.zoom] : t \in {u \in saveTimers : u.ref}}
    /\ UNCHANGED <<gestVars, annVars, envVars, scale, currentPage, totalPages, scrollTop,
                   restoreTimers, stored, readCalls, hist, nZoom>>

Unmount ==
    /\ mounted
    /\ mounted' = FALSE
    /\ saveTimers' = ClearTimeoutRef(saveTimers)
    /\ UNCHANGED <<gestVars, annVars, envVars, scale, currentPage, totalPages, scrollTop, restoreTimers,
                   persistVars, hist, nZoom>>

\* d milliseconds pass; no timer is overdue.
Elapse(timers, d) == {[t EXCEPT !.remaining = @ - d] : t \in timers}

Advance(d) ==
    /\ \A t \in saveTimers \cup restoreTimers \cup longPressTimers : t.remaining >= d
    /\ saveTimers' = Elapse(saveTimers, d)
    /\ restoreTimers' = Elapse(restoreTimers, d)
    /\ longPressTimers' = Elapse(longPressTimers, d)
    /\ textBoxClickTimeRef' = Later(textBoxClickTimeRef, d)
    /\ press' = IF press.active THEN [press EXCEPT !.elapsed = Min(@ + d, ElapsedCap)] ELSE press
    /\ hist' = [hist EXCEPT !.since = Min(@ + d, SaveDelay)]
    /\ UNCHANGED <<annotationMode, highlightColor, createVars, draggingAnnotation,
                   resizingTextBox, editingTextBox, selectVars, annVars,
                   pointer, button, downTarget, nMoves, nPresses,
                   mounted, scale, currentPage, totalPages, scrollTop, persistVars, nZoom>>

ReadingTick == RestoreDelay   \* step of the clock in the reading specification, ms

NextReading ==
    \/ \E st \in ScrollTargets : HandleScroll(st) /\ UNCHANGED panelVars
    \/ HandleZoomIn /\ UNCHANGED panelVars
    \/ HandleZoomOut /\ UNCHANGED panelVars
    \/ HandleZoomReset /\ UNCHANGED panelVars
    \/ OnDocumentLoadSuccess /\ UNCHANGED panelVars
    \/ \E c \in readCalls, ok \in BOOLEAN : ServeRead(c, ok) /\ UNCHANGED panelVars
    \/ \E c \in readCalls : LoadReadingStateResume(c) /\ UNCHANGED panelVars
    \/ \E t \in restoreTimers : RestoreScroll(t) /\ UNCHANGED panelVars
    \/ \E t \in saveTimers : SaveTimerFires(t) /\ UNCHANGED panelVars
    \/ \E c \in saveCalls, ok \in BOOLEAN : SaveReadingStateResume(c, ok) /\ UNCHANGED panelVars
    \/ \E i \in 1..Len(annCalls), ok \in BOOLEAN : ServeList(i, ok) /\ UNCHANGED panelVars
    \/ \E i \in 1..Len(annCalls) : LoadAnnotationsResume(i) /\ UNCHANGED panelVars
    \/ Unmount /\ UNCHANGED panelVars
    \/ Advance(ReadingTick) /\ UNCHANGED panelVars

SpecReading == Init /\ [][NextReading]_vars

----------------------------------------------------------------------------
\* The viewer some time after the document, its reading state and its
\* annotations have loaded and the last save has gone through, at a zoom
\* level of 200%, with the pointer near the left edge of a page.
InitGesture ==
    /\ CropIdle /\ ChatIdle /\ TypewriterIdle /\ PollIdle
    /\ mounted = TRUE
    /\ scale \in GestureScales
    /\ currentPage = 1
    /\ totalPages = NumPages
    /\ scrollTop = 0
    /\ saveTimers = {}
    /\ restoreTimers = {}
    /\ stored = [current_page |-> 1, scroll_position |-> <<0, 1>>, zoom_level |-> scale]
    /\ readCalls = {}
    /\ saveCalls = {}
    /\ hist = [unsaved |-> FALSE, since |-> SaveDelay, saves |-> 1, burst |-> 1,
               snapshot |-> Snapshot(1, scale, 0, NumPages), redeleted |-> {},
               removed |-> {}, late |-> {}]
    /\ nZoom = 0
    /\ annotations = <<T1>>
    /\ serverAnns = <<T1>>
    /\ nextId = 2
    /\ annCalls = <<>>
    /\ annotationMode = "none"
    /\ highlightColor = "yellow"
    /\ isCreatingAnnotation = FALSE
    /\ annotationStart = Null
    /\ annotationEnd = Null
    /\ draggingAnnotation = Null
    /\ resizingTextBox = Null
    /\ editingTextBox = 0
    /\ textBoxClickTimeRef = Null
    /\ longPressTimers = {}
    /\ selectionStart = Null
    /\ selectionEnd = Null
    /\ isSelecting = FALSE
    /\ screenshotPreview = Null
    /\ pointer \in StartPoints(scale)
    /\ button = "up"
    /\ downTarget = NoTarget
    /\ press = IdlePress
    /\ nMoves = 0
    /\ nPresses = 0

NextGesture ==
    \/ \E mode \in Modes, text \in Texts : SetAnnotationMode(mode, text) /\ UNCHANGED panelVars
    \/ \E color \in Colors : SetHighlightColor(color) /\ UNCHANGED panelVars
    \/ \E text \in Texts : MouseDown(text) /\ UNCHANGED panelVars
    \/ \E pt \in Points(scale) : MouseMove(pt) /\ UNCHANGED panelVars
    \/ MouseUp /\ UNCHANGED panelVars
    \/ \E confirm \in BOOLEAN : ContextMenu(confirm) /\ UNCHANGED panelVars
    \/ \E t \in longPressTimers : LongPressFires(t) /\ UNCHANGED panelVars
    \/ \E i \in 1..Len(annCalls), ok \in BOOLEAN : ServeCreate(i, ok) /\ UNCHANGED panelVars
    \/ \E i \in 1..Len(annCalls), ok \in BOOLEAN : ServeUpdate(i, ok) /\ UNCHANGED panelVars
    \/ \E i \in 1..Len(annCalls), ok \in BOOLEAN : ServeDelete(i, ok) /\ UNCHANGED panelVars
    \/ \E i \in 1..Len(annCalls) : CreateAnnotationResume(i) /\ UNCHANGED panelVars
    \/ \E i \in 1..Len(annCalls) : UpdateAnnotationResume(i) /\ UNCHANGED panelVars
    \/ \E i \in 1..Len(annCalls) : DeleteAnnotationResume(i) /\ UNCHANGED panelVars
    \/ Advance(GestureTick) /\ UNCHANGED panelVars

SpecGesture == InitGesture /\ [][NextGesture]_vars

----------------------------------------------------------------------------
\* Repeated pointer sessions in mode "none" on a page with a text box and a
\* highlight: the document and its annotations have loaded, and the user
\* presses, moves, releases or leaves the document up to MaxSessionPresses
\* and MaxSessionMoves times while the update calls are answered.

InitSession ==
    /\ CropIdle /\ ChatIdle /\ TypewriterIdle /\ PollIdle
    /\ mounted = TRUE
    /\ scale \in GestureScales
    /\ currentPage = 1
    /\ totalPages = NumPages
    /\ scrollTop = 0
    /\ saveTimers = {}
    /\ restoreTimers = {}
    /\ stored = [current_page |-> 1, scroll_position |-> <<0, 1>>, zoom_level |-> scale]
    /\ readCalls = {}
    /\ saveCalls = {}
    /\ hist = [unsaved |-> FALSE, since |-> SaveDelay, saves |-> 1, burst |-> 1,
               snapshot |-> Snapshot(1, scale, 0, NumPages), redeleted |-> {},
               removed |-> {}, late |-> {}]
    /\ nZoom = 0
    /\ annotations = <<T1, H2>>
    /\ serverAnns = <<T1, H2>>
    /\ nextId = 3
    /\ annCalls = <<>>
    /\ annotationMode = "none"
    /\ highlightColor = "yellow"
    /\ isCreatingAnnotation = FALSE
    /\ annotationStart = Null
    /\ annotationEnd = Null
    /\ draggingAnnotation = Null
    /\ resizingTextBox = Null
    /\ editingTextBox = 0
    /\ textBoxClickTimeRef = Null
    /\ longPressTimers = {}
    /\ selectionStart = Null
    /\ selectionEnd = Null
    /\ isSelecting = FALSE
    /\ screenshotPreview = Null
    /\ pointer \in SessionPoints(scale)
    /\ button = "up"
    /\ downTarget = NoTarget
    /\ press = IdlePress
    /\ nMoves = 0
    /\ nPresses = 0

SessionDown == nPresses < MaxSessionPresses /\ \E text \in Texts : OnMouseDown(text)
SessionMove == nMoves < MaxSessionMoves /\ \E pt \in SessionPoints(scale) : OnMouseMove(pt)

NextSession ==
    \/ SessionDown /\ UNCHANGED panelVars
    \/ SessionMove /\ UNCHANGED panelVars
    \/ MouseUp /\ UNCHANGED panelVars
    \/ PointerLeave /\ UNCHANGED panelVars
    \/ \E t \in longPressTimers : LongPressFires(t) /\ UNCHANGED panelVars
    \/ \E i \in 1..Len(annCalls), ok \in BOOLEAN : ServeUpdate(i, ok) /\ UNCHANGED panelVars
    \/ \E i \in 1..Len(annCalls) : UpdateAnnotationResume(i) /\ UNCHANGED panelVars
    \/ Advance(GestureTick) /\ UNCHANGED panelVars

SpecSession == InitSession /\ [][NextSession]_vars

----------------------------------------------------------------------------
\* A screenshot selection in mode "none" on a document without annotations:
\* the user presses up to MaxShotPresses times, moves up to MaxShotMoves
\* times, and releases or leaves;
\* a preview shown is cancelled from its menu.

InitShot ==
    /\ CropIdle /\ ChatIdle /\ TypewriterIdle /\ PollIdle
    /\ mounted = TRUE
    /\ scale \in GestureScales
    /\ currentPage = 1
    /\ totalPages = NumPages
    /\ scrollTop = 0
    /\ saveTimers = {}
    /\ restoreTimers = {}
    /\ stored = [current_page |-> 1, scroll_position |-> <<0, 1>>, zoom_level |-> scale]
    /\ readCalls = {}
    /\ saveCalls = {}
    /\ hist = [unsaved |-> FALSE, since |-> SaveDelay, saves |-> 1, burst |-> 1,
               snapshot |-> Snapshot(1, scale, 0, NumPages), redeleted |-> {},
               removed |-> {}, late |-> {}]
    /\ nZoom = 0
    /\ annotations = <<>>
    /\ serverAnns = <<>>
    /\ nextId = 1
    /\ annCalls = <<>>
    /\ annotationMode = "none"
    /\ highlightColor = "yellow"
    /\ isCreatingAnnotation = FALSE
    /\ annotationStart = Null
    /\ annotationEnd = Null
    /\ draggingAnnotation = Null
    /\ resizingTextBox = Null
    /\ editingTextBox = 0
    /\ textBoxClickTimeRef = Null
    /\ longPressTimers = {}
    /\ selectionStart = Null
    /\ selectionEnd = Null
    /\ isSelecting = FALSE
    /\ screenshotPreview = Null
    /\ pointer \in ShotPoints(scale)
    /\ button = "up"
    /\ downTarget = NoTarget
    /\ press = IdlePress
    /\ nMoves = 0
    /\ nPresses = 0

ShotDown == nPresses < MaxShotPresses /\ \E text \in Texts : OnMouseDown(text)
ShotMove == nMoves < MaxShotMoves /\ \E pt \in ShotPoints(scale) : OnMouseMove(pt)

NextShot ==
    \/ ShotDown /\ UNCHANGED panelVars
    \/ ShotMove /\ UNCHANGED panelVars
    \/ MouseUp /\ UNCHANGED panelVars
    \/ PointerLeave /\ UNCHANGED panelVars
    \/ HandleCancelScreenshot /\ UNCHANGED panelVars

SpecShot == InitShot /\ [][NextShot]_vars

----------------------------------------------------------------------------
\* Creation sessions in the modes "highlight" and "text" on a document
\* without annotations: the user presses up to MaxCreatePresses times, moves
\* up to MaxCreateMoves times and releases, while the backend answers the
\* calls.

InitCreate ==
    /\ CropIdle /\ ChatIdle /\ TypewriterIdle /\ PollIdle
    /\ mounted = TRUE
    /\ scale \in GestureScales
    /\ currentPage = 1
    /\ totalPages = NumPages
    /\ scrollTop = 0
    /\ saveTimers = {}
    /\ restoreTimers = {}
    /\ stored = [current_page |-> 1, scroll_position |-> <<0, 1>>, zoom_level |-> scale]
    /\ readCalls = {}
    /\ saveCalls = {}
    /\ hist = [unsaved |-> FALSE, since |-> SaveDelay, saves |-> 1, burst |-> 1,
               snapshot |-> Snapshot(1, scale, 0, NumPages), redeleted |-> {},
               removed |-> {}, late |-> {}]
    /\ nZoom = 0
    /\ annotations = <<>>
    /\ serverAnns = <<>>
    /\ nextId = 1
    /\ annCalls = <<>>
    /\ annotationMode \in {"highlight", "text"}
    /\ highlightColor = "yellow"
    /\ isCreatingAnnotation = FALSE
    /\ annotationStart = Null
    /\ annotationEnd = Null
    /\ draggingAnnotation = Null
    /\ resizingTextBox = Null
    /\ editingTextBox = 0
    /\ textBoxClickTimeRef = Null
    /\ longPressTimers = {}
    /\ selectionStart = Null
    /\ selectionEnd = Null
    /\ isSelecting = FALSE
    /\ screenshotPreview = Null
    /\ pointer \in CreatePoints(scale)
    /\ button = "up"
    /\ downTarget = NoTarget
    /\ press = IdlePress
    /\ nMoves = 0
    /\ nPresses = 0

CreateDown == nPresses < MaxCreatePresses /\ \E text \in Texts : OnMouseDown(text)
CreateMove == nMoves < MaxCreateMoves /\ \E pt \in CreatePoints(scale) : OnMouseMove(pt)

NextCreate ==
    \/ CreateDown /\ UNCHANGED panelVars
    \/ CreateMove /\ UNCHANGED panelVars
    \/ MouseUp /\ UNCHANGED panelVars
    \/ \E i \in 1..Len(annCalls), ok \in BOOLEAN : ServeCreate(i, ok) /\ UNCHANGED panelVars
    \/ \E i \in 1..Len(annCalls), ok \in BOOLEAN : ServeUpdate(i, ok) /\ UNCHANGED panelVars
    \/ \E i \in 1..Len(annCalls) : CreateAnnotationResume(i) /\ UNCHANGED panelVars
    \/ \E i \in 1..Len(annCalls) : UpdateAnnotationResume(i) /\ UNCHANGED panelVars

SpecCreate == InitCreate /\ [][NextCreate]_vars

----------------------------------------------------------------------------
\* Gestures at changing zoom levels: from the default scale the user zooms
\* in, out or back (with no button held), points at the same places of the
\* page content, and creates or drags annotations.

InitZoom ==
    /\ CropIdle /\ ChatIdle /\ TypewriterIdle /\ PollIdle
    /\ mounted = TRUE
    /\ scale = ZoomDefault
    /\ currentPage = 1
    /\ totalPages = NumPages
    /\ scrollTop = 0
    /\ saveTimers = {}
    /\ restoreTimers = {}
    /\ stored = [current_page |-> 1, scroll_position |-> <<0, 1>>, zoom_level |-> scale]
    /\ readCalls = {}
    /\ saveCalls = {}
    /\ hist = [unsaved |-> FALSE, since |-> SaveDelay, saves |-> 1, burst |-> 1,
               snapshot |-> Snapshot(1, scale, 0, NumPages), redeleted |-> {},
               removed |-> {}, late |-> {}]
    /\ nZoom = 0
    /\ annotations = <<T1>>
    /\ serverAnns = <<T1>>
    /\ nextId = 2
    /\ annCalls = <<>>
    /\ annotationMode \in {"none", "highlight"}
    /\ highlightColor = "yellow"
    /\ isCreatingAnnotation = FALSE
    /\ annotationStart = Null
    /\ annotationEnd = Null
    /\ draggingAnnotation = Null
    /\ resizingTextBox = Null
    /\ editingTextBox = 0
    /\ textBoxClickTimeRef = Null
    /\ longPressTimers = {}
    /\ selectionStart = Null
    /\ selectionEnd = Null
    /\ isSelecting = FALSE
    /\ screenshotPreview = Null
    /\ pointer \in ZoomPoints(scale)
    /\ button = "up"
    /\ downTarget = NoTarget
    /\ press = IdlePress
    /\ nMoves = 0
    /\ nPresses = 0

\* The pointer follows the page content to one of its places.
ZoomMove == nMoves < MaxZoomMoves /\ \E pt \in ZoomPoints(scale) : OnMouseMove(pt)

\* The zoom buttons of the toolbar are pressed with the pointer: no button is
\* held on the document.
NextZoom ==
    \/ button = "up" /\ HandleZoomIn /\ UNCHANGED panelVars
    \/ button = "up" /\ HandleZoomOut /\ UNCHANGED panelVars
    \/ button = "up" /\ HandleZoomReset /\ UNCHANGED panelVars
    \/ \E text \in Texts : MouseDown(text) /\ UNCHANGED panelVars
    \/ ZoomMove /\ UNCHANGED panelVars
    \/ MouseUp /\ UNCHANGED panelVars
    \/ \E t \in longPressTimers : LongPressFires(t) /\ UNCHANGED panelVars
    \/ \E i \in 1..Len(annCalls), ok \in BOOLEAN : ServeCreate(i, ok) /\ UNCHANGED panelVars
    \/ \E i \in 1..Len(annCalls), ok \in BOOLEAN : ServeUpdate(i, ok) /\ UNCHANGED panelVars
    \/ \E i \in 1..Len(annCalls) : CreateAnnotationResume(i) /\ UNCHANGED panelVars
    \/ \E i \in 1..Len(annCalls) : UpdateAnnotationResume(i) /\ UNCHANGED panelVars
    \/ Advance(GestureTick) /\ UNCHANGED panelVars

SpecZoom == InitZoom /\ [][NextZoom]_vars

----------------------------------------------------------------------------
\* The viewer at rest, for the specifications of the other components: the
\* state of Init with nothing stored and no timer pending.
ViewerIdle ==
    /\ mounted = FALSE
    /\ scale = ZoomDefault
    /\ currentPage = 1
    /\ totalPages = 0
    /\ scrollTop = 0
    /\ saveTimers = {}
    /\ restoreTimers = {}
    /\ stored = Null
    /\ readCalls = {}
    /\ saveCalls = {}
    /\ hist = [unsaved |-> FALSE, since |-> 0, saves |-> 0, burst |-> 0,
               snapshot |-> Snapshot(1, ZoomDefault, 0, 0), redeleted |-> {},
               removed |-> {}, late |-> {}]
    /\ nZoom = 0
    /\ annotations = <<>>
    /\ serverAnns = <<>>
    /\ nextId = 1
    /\ annCalls = <<>>
    /\ annotationMode = "none"
    /\ highlightColor = "yellow"
    /\ isCreatingAnnotation = FALSE
    /\ annotationStart = Null
    /\ annotationEnd = Null
    /\ draggingAnnotation = Null
    /\ resizingTextBox = Null
    /\ editingTextBox = 0
    /\ textBoxClickTimeRef = Null
    /\ longPressTimers = {}
    /\ selectionStart = Null
    /\ selectionEnd = Null
    /\ isSelecting = FALSE
    /\ screenshotPreview = Null
    /\ pointer = ClientPoint(1, 60, 100, ZoomDefault)
    /\ button = "up"
    /\ downTarget = NoTarget
    /\ press = IdlePress
    /\ nMoves = 0
    /\ nPresses = 0

----------------------------------------------------------------------------
\* The screenshot crop of handleMouseUp as a function of its rectangles: the
\* selection (selectionLeft, selectionTop, width, height, client px), the
\* bounding boxes of the canvases that document.querySelectorAll finds, in
\* document order, and the size of a canvas' bitmap.

\* canvas.width x canvas.height: the bitmap of a page rendered at width 600.
CanvasNative == [width |-> PageWidth, height |-> PageHeight]

\* v * (canvas.width / canvasRect.width).  The inputs below make the
\* quotient exact.
ToNative(v, native, displayed) == (v * native) \div displayed

\* The for loop over allCanvases: the first canvas that overlaps the
\* selection, 0 for none.
OverlapsCanvas(sel, canvasRect) ==
    /\ sel.left < canvasRect.left + canvasRect.width
    /\ sel.left + sel.width > canvasRect.left
    /\ sel.top < canvasRect.top + canvasRect.height
    /\ sel.top + sel.height > canvasRect.top

TargetCanvas(sel, canvases) ==
    IF \E i \in 1..Len(canvases) : OverlapsCanvas(sel, canvases[i])
    THEN CHOOSE i \in 1..Len(canvases) :
             /\ OverlapsCanvas(sel, canvases[i])
             /\ \A j \in 1..(i - 1) : ~OverlapsCanvas(sel, canvases[j])
    ELSE 0

\* canvasX, canvasY, canvasWidth, canvasHeight, and the canvas created with
\* screenshotCanvas.width = canvasWidth, screenshotCanvas.height = canvasHeight.
CropRect(sel, canvasRect) ==
    [canvasX |-> ToNative(Max(0, sel.left - canvasRect.left),
                          CanvasNative.width, canvasRect.width),
     canvasY |-> ToNative(Max(0, sel.top - canvasRect.top),
                          CanvasNative.height, canvasRect.height),
     canvasWidth |-> ToNative(Min(sel.width, canvasRect.left + canvasRect.width - sel.left),
                              CanvasNative.width, canvasRect.width),
     canvasHeight |-> ToNative(Min(sel.height, canvasRect.top + canvasRect.height - sel.top),
                               CanvasNative.height, canvasRect.height)]

\* getBoundingClientRect() of the canvas of page p, ox and oy px from the
\* left and the top of the document container.
CanvasRect(p, s, ox, oy) ==
    LET r == PageRect(p, s, 0)
    IN  [left |-> r.left + ox, top |-> r.top + oy, width |-> r.width, height |-> r.height]

\* The rectangles a selection is cropped with.  The selection has its left
\* edge at 0, 100 or 1100 px, its top edge at 0, 100, 900 or 1900 px, and is
\* 20 or 200 px wide and 20, 200 or 1200 px high.  The zoom level is 100% or
\* 200%; a canvas lies 0 or 20 px (the margin of a centred page) from the
\* left and from the top of the container; the pages whose canvas react-pdf
\* has rendered are all of them, or all but page 1.
CropInputs ==
    { [selection |-> [left |-> l, top |-> t, width |-> w, height |-> h],
       canvases |-> [i \in 1..(NumPages - first + 1) |-> CanvasRect(first + i - 1, s, ox, oy)]] :
        l \in {0, 100, 1100}, t \in {0, 100, 900, 1900}, w \in {20, 200}, h \in {20, 200, 1200},
        s \in {100, 200}, ox \in {0, 20}, oy \in {0, 20}, first \in {1, 2} }

InitCrop ==
    /\ ViewerIdle
    /\ ChatIdle /\ TypewriterIdle /\ PollIdle
    /\ cropInput \in {Some(c) : c \in CropInputs}
    /\ screenshotCanvas = Null

\* handleMouseUp, screenshot branch, inside "if (width > 10 && height > 10)":
\* without a target canvas it returns; else it creates the canvas and
\* draws the source rectangle into it.
CaptureSelection ==
    /\ cropInput # Null
    /\ screenshotCanvas = Null
    /\ LET c == cropInput[1]
           i == TargetCanvas(c.selection, c.canvases)
       IN  /\ i # 0
           /\ screenshotCanvas' = Some([target |-> i] @@ CropRect(c.selection, c.canvases[i]))
    /\ UNCHANGED <<viewerVars, cropInput, chatVars, typeVars, pollVars>>

\* The preview is closed (handleCancelScreenshot).
DiscardCapture ==
    /\ screenshotCanvas # Null
    /\ screenshotCanvas' = Null
    /\ cropInput' = Null
    /\ UNCHANGED <<viewerVars, chatVars, typeVars, pollVars>>

NextCrop ==
    \/ CaptureSelection
    \/ DiscardCapture

SpecCrop == InitCrop /\ [][NextCrop]_vars

----------------------------------------------------------------------------
\* The chat panel (ChatPanel.tsx): one instance, whose prop conversationId
\* the application changes when the user selects another conversation.  A
\* message carries, for history, the conversation it was sent in (conv).

MaxSubmits == 2      \* submits of the user
MaxSwitches == 3     \* changes of conversation
Conversations == {1, 2}

UserMessage(conv, input) == [role |-> "user", content |-> input, conv |-> conv]
AiResponse(conv, input) == [role |-> "assistant", content |-> "re: " \o input, conv |-> conv]
ErrorMessage(conv) == [role |-> "assistant", content |-> "error", conv |-> conv]

ChatCall(op, conv, input) ==
    [op |-> op, conv |-> conv, input |-> input, status |-> "sent", result |-> Null]

\* The panel is shown without a conversation; the backend holds no message.
InitChat ==
    /\ ViewerIdle
    /\ CropIdle /\ TypewriterIdle /\ PollIdle
    /\ conversationId = 0
    /\ messages = <<>>
    /\ isLoading = FALSE
    /\ chatCalls = <<>>
    /\ serverMessages = [c \in Conversations |-> <<>>]
    /\ nSubmits = 0
    /\ nSwitches = 0

\* The prop changes and the effect on [conversationId] runs: loadMessages()
\* up to its await, or setMessages([]) without a conversation.
SelectConversation(c) ==
    /\ nSwitches < MaxSwitches
    /\ c # conversationId
    /\ nSwitches' = nSwitches + 1
    /\ conversationId' = c
    /\ IF c # 0
       THEN /\ chatCalls' = Append(chatCalls, ChatCall("load", c, ""))
            /\ UNCHANGED messages
       ELSE /\ messages' = <<>>
            /\ UNCHANGED chatCalls
    /\ UNCHANGED <<viewerVars, cropVars, typeVars, pollVars, isLoading, serverMessages, nSubmits>>

\* The backend answers getMessages with the conversation's messages, or the
\* request fails.
ServeMessages(i, ok) ==
    /\ chatCalls[i].op = "load" /\ chatCalls[i].status = "sent"
    /\ chatCalls' = [chatCalls EXCEPT ![i].status = IF ok THEN "ok" ELSE "err",
                                      ![i].result = IF ok THEN serverMessages[chatCalls[i].conv]
                                                    ELSE Null]
    /\ UNCHANGED <<viewerVars, cropVars, typeVars, pollVars, conversationId, messages,
                   isLoading, serverMessages, nSubmits, nSwitches>>

\* loadMessages after the await: setMessages(response.messages); the catch
\* sets the empty list.
LoadMessagesResume(i) ==
    /\ chatCalls[i].op = "load" /\ chatCalls[i].status # "sent"
    /\ chatCalls' = RemoveAt(chatCalls, i)
    /\ messages' = IF chatCalls[i].status = "ok" THEN chatCalls[i].result ELSE <<>>
    /\ UNCHANGED <<viewerVars, cropVars, typeVars, pollVars, conversationId, isLoading,
                   serverMessages, nSubmits, nSwitches>>

\* handleSubmit up to its await: the guard, the user's message appended,
\* isLoading set, sendMessage(conversationId, currentInput, imageIds) sent.
HandleSubmit(input) ==
    /\ nSubmits < MaxSubmits
    /\ ~isLoading /\ conversationId # 0
    /\ nSubmits' = nSubmits + 1
    /\ messages' = Append(messages, UserMessage(conversationId, input))
    /\ isLoading' = TRUE
    /\ chatCalls' = Append(chatCalls, ChatCall("send", conversationId, input))
    /\ UNCHANGED <<viewerVars, cropVars, typeVars, pollVars, conversationId, serverMessages, nSwitches>>

\* The backend stores the user's message and its answer in the conversation
\* of the request and returns the answer, or the request fails.
ServeSend(i, ok) ==
    /\ chatCalls[i].op = "send" /\ chatCalls[i].status = "sent"
    /\ LET c == chatCalls[i]
       IN  IF ok
           THEN /\ serverMessages' =
                       [serverMessages EXCEPT ![c.conv] =
                           @ \o <<UserMessage(c.conv, c.input), AiResponse(c.conv, c.input)>>]
                /\ chatCalls' = [chatCalls EXCEPT ![i].status = "ok",
                                                  ![i].result = Some(AiResponse(c.conv, c.input))]
           ELSE /\ chatCalls' = [chatCalls EXCEPT ![i].status = "err"]
                /\ UNCHANGED serverMessages
    /\ UNCHANGED <<viewerVars, cropVars, typeVars, pollVars, conversationId, messages,
                   isLoading, nSubmits, nSwitches>>

\* handleSubmit after the await: the answer, or in the catch the error
\* message, is appended to the list shown; finally isLoading is reset.
SendMessageResume(i) ==
    /\ chatCalls[i].op = "send" /\ chatCalls[i].status # "sent"
    /\ chatCalls' = RemoveAt(chatCalls, i)
    /\ messages' = Append(messages, IF chatCalls[i].status = "ok" THEN chatCalls[i].result[1]
                                    ELSE ErrorMessage(chatCalls[i].conv))
    /\ isLoading' = FALSE
    /\ UNCHANGED <<viewerVars, cropVars, typeVars, pollVars, conversationId, serverMessages,
                   nSubmits, nSwitches>>

NextChat ==
    \/ \E c \in Conversations \cup {0} : SelectConversation(c)
    \/ \E i \in 1..Len(chatCalls), ok \in BOOLEAN : ServeMessages(i, ok)
    \/ \E i \in 1..Len(chatCalls) : LoadMessagesResume(i)
    \/ HandleSubmit("q")
    \/ \E i \in 1..Len(chatCalls), ok \in BOOLEAN : ServeSend(i, ok)
    \/ \E i \in 1..Len(chatCalls) : SendMessageResume(i)

SpecChat == InitChat /\ [][NextChat]_vars

----------------------------------------------------------------------------
\* The typewriter (useTypewriter.ts) under StreamingMessageContent, which
\* calls it with the content of a message that is being streamed: the text
\* grows by a character at a time.  A text is a sequence of characters.

speed == 10          \* useTypewriter(content, 10), ms
MaxTextLen == 3      \* characters of the streamed message
Chars == {"a", "b"}
FrameTimes == {4, 16}    \* ms between two animation frames

\* The state after the first render and its effects: textRef holds the
\* text, lastUpdateRef the time of the mount, and updateText is requested
\* for the next frame.
InitTypewriter ==
    /\ ViewerIdle
    /\ CropIdle /\ ChatIdle /\ PollIdle
    /\ textProp \in {<<>>, <<"a">>}
    /\ displayedText = <<>>
    /\ textRef = textProp
    /\ indexRef = 0
    /\ animationRef = TRUE
    /\ lastUpdateRef = 0

\* A character arrives: the component renders with the longer text and the
\* effect on [text] runs.  updateText keeps its identity (its dependency is
\* speed), so the effect that requests the animation does not run again.
SetText(c) ==
    /\ Len(textProp) < MaxTextLen
    /\ textProp' = Append(textProp, c)
    /\ textRef' = textProp'
    /\ indexRef' = IF Len(textProp') < indexRef THEN 0 ELSE indexRef
    /\ UNCHANGED <<viewerVars, cropVars, chatVars, pollVars, displayedText, animationRef,
                   lastUpdateRef>>

\* updateText, the animation frame callback, dt ms after the frame before:
\* one more character once speed ms have passed, and the next frame is
\* requested while the index is short of the text.
UpdateText(dt) ==
    /\ animationRef
    /\ LET elapsed == lastUpdateRef + dt
           step == elapsed >= speed /\ indexRef < Len(textRef)
           index == IF step THEN indexRef + 1 ELSE indexRef
       IN  /\ displayedText' = IF step THEN SubSeq(textRef, 1, indexRef + 1) ELSE displayedText
           /\ indexRef' = index
           /\ lastUpdateRef' = IF step THEN 0 ELSE Min(elapsed, speed)
           /\ animationRef' = (index < Len(textRef))
    /\ UNCHANGED <<viewerVars, cropVars, chatVars, pollVars, textProp, textRef>>

NextTypewriter ==
    \/ \E c \in Chars : SetText(c)
    \/ \E dt \in FrameTimes : UpdateText(dt)

SpecTypewriter == InitTypewriter /\ [][NextTypewriter]_vars

\* The browser runs a requested animation frame callback.
SpecTypewriterLive == SpecTypewriter /\ WF_vars(\E dt \in FrameTimes : UpdateText(dt))

----------------------------------------------------------------------------
\* The status polling of an uploaded document (pollPDFStatus, called once
\* by handleUploadSuccess).  For history: the status requests issued so far
\* and whether the polling has ended (a final status or a failed request
\* was received).

maxAttempts == 30    \* const maxAttempts = 30

\* if (attempts < maxAttempts) setTimeout(poll, 2000)
ContinueUpTo(n) == n <= maxAttempts
ContinuePolling(n) == n < maxAttempts

Final(status) == status \in {"completed", "failed"}

\* pollPDFStatus has called poll(), which waits for its first answer.
InitPoll ==
    /\ ViewerIdle
    /\ CropIdle /\ ChatIdle /\ TypewriterIdle
    /\ attempts = 0
    /\ pollTimers = 0
    /\ statusCalls = <<[status |-> "sent", result |-> ""]>>
    /\ vectorization = "pending"
    /\ conversationPdfs = "pending"
    /\ pollHist = [requests |-> 1, ended |-> FALSE]

\* The backend works on the document.
Vectorize(status) ==
    /\ \/ vectorization = "pending" /\ status \in {"processing", "failed"}
       \/ vectorization = "processing" /\ status \in {"completed", "failed"}
    /\ vectorization' = status
    /\ UNCHANGED <<viewerVars, cropVars, chatVars, typeVars, attempts, pollTimers, statusCalls,
                   conversationPdfs, pollHist>>

\* The backend answers getPDFStatus, or the request fails.
ServeStatus(i, ok) ==
    /\ statusCalls[i].status = "sent"
    /\ statusCalls' = [statusCalls EXCEPT ![i] = [status |-> IF ok THEN "ok" ELSE "err",
                                                  result |-> IF ok THEN vectorization ELSE ""]]
    /\ UNCHANGED <<viewerVars, cropVars, chatVars, typeVars, attempts, pollTimers, vectorization,
                   conversationPdfs, pollHist>>

\* poll after the await: the local status is updated; a final status ends
\* the polling; else attempts is incremented and, below maxAttempts, poll is
\* scheduled again.  The catch logs.
PollResume(i) ==
    /\ statusCalls[i].status # "sent"
    /\ statusCalls' = RemoveAt(statusCalls, i)
    /\ LET c == statusCalls[i]
       IN  IF c.status = "ok"
           THEN /\ conversationPdfs' = c.result
                /\ IF Final(c.result)
                   THEN /\ pollHist' = [pollHist EXCEPT !.ended = TRUE]
                        /\ UNCHANGED <<attempts, pollTimers>>
                   ELSE /\ attempts' = attempts + 1
                        /\ pollTimers' = IF ContinuePolling(attempts') THEN pollTimers + 1
                                         ELSE pollTimers
                        /\ UNCHANGED pollHist
           ELSE /\ pollHist' = [pollHist EXCEPT !.ended = TRUE]
                /\ UNCHANGED <<attempts, pollTimers, conversationPdfs>>
    /\ UNCHANGED <<viewerVars, cropVars, chatVars, typeVars, vectorization>>

\* setTimeout(poll, 2000) fires: poll up to its await.
PollTimerFires ==
    /\ pollTimers > 0
    /\ pollTimers' = pollTimers - 1
    /\ statusCalls' = Append(statusCalls, [status |-> "sent", result |-> ""])
    /\ pollHist' = [pollHist EXCEPT !.requests = @ + 1]
    /\ UNCHANGED <<viewerVars, cropVars, chatVars, typeVars, attempts, vectorization,
                   conversationPdfs>>

NextPoll ==
    \/ \E status \in {"processing", "completed", "failed"} : Vectorize(status)
    \/ \E i \in 1..Len(statusCalls), ok \in BOOLEAN : ServeStatus(i, ok)
    \/ \E i \in 1..Len(statusCalls) : PollResume(i)
    \/ PollTimerFires

SpecPoll == InitPoll /\ [][NextPoll]_vars





----------------------------------------------------------------------------
\* Claims on the reading-state tracker (checked under SpecReading).

\* The save call issued by a step, if any.
IssuedSaves == saveCalls' \ saveCalls

\* C3: debounce coalescing.  While the viewer is mounted, a burst of
\* scroll/zoom events (each within 2 s of the one before) has exactly one
\* timer pending, due 2 s after the last event; when it fires exactly one save
\* call is issued, carrying page, zoom and scroll percentage as of the last
\* event, and no timer is left.
C3_Pending ==
    mounted =>
        /\ Cardinality(saveTimers) <= 1
        /\ hist.unsaved =>
              /\ hist.saves = 0
              /\ \E t \in saveTimers :
                    /\ t.remaining + hist.since = SaveDelay
                    /\ t.page = hist.snapshot.page
                    /\ t.zoom = hist.snapshot.zoom
        /\ ~hist.unsaved => (saveTimers = {} /\ hist.saves = 1)

C3_Issue ==
    IssuedSaves # {} =>
        /\ hist.since = SaveDelay
        /\ hist.unsaved /\ ~hist'.unsaved
        /\ IssuedSaves = {[current_page |-> hist.snapshot.page,
                           scroll_position |-> hist.snapshot.scroll,
                           zoom_level |-> hist.snapshot.zoom]}

C3_DebounceCoalescing == [](C3_Pending) /\ [][C3_Issue]_vars

\* A burst of at least two events has been saved by one call.
C3_Witness ==
    /\ hist.burst >= 2 /\ ~hist.unsaved /\ hist.saves = 1
    /\ \E c \in saveCalls : c.zoom_level = 125 /\ c.scroll_position # <<0, 1>>

\* C9: the scroll position of every issued save call is
\* scrollTop / (scrollHeight - clientHeight) * 100, and 0 when the container
\* is not scrollable; it lies in [0, 100]; 2000/500/300 gives 20.
C9_Payload(p, st, sh, ch) ==
    /\ p[2] > 0
    /\ sh - ch > 0 => p[1] * (sh - ch) = st * 100 * p[2]
    /\ sh - ch <= 0 => p[1] = 0
    /\ (0 <= st /\ st <= sh - ch) => (0 <= p[1] /\ p[1] <= 100 * p[2])
    /\ (sh = 2000 /\ ch = 500 /\ st = 300) => p = <<20, 1>>

C9_ScrollPercent ==
    [][\A c \in IssuedSaves :
          C9_Payload(c.scroll_position, scrollTop,
                     ScrollHeight(totalPages, scale), ClientHeight)]_vars

\* The save of the example is in flight: scrollHeight 2000, scrollTop 300.
C9_Witness ==
    /\ ScrollHeight(totalPages, scale) = 2000 /\ ClientHeight = 500 /\ scrollTop = 300
    /\ \E c \in saveCalls : c.scroll_position = <<20, 1>> /\ c.zoom_level = scale

\* A save issued while the container is not scrollable carries 0.
C9_WitnessNotScrollable ==
    /\ MaxScroll(totalPages, scale) = 0
    /\ \E c \in saveCalls : c.scroll_position = <<0, 1>>

\* C10: the zoom level stays within [0.5, 3.0] in every state, and so does
\* the zoom_level of every pending and issued save.
C10_ZoomInRange ==
    /\ ZoomMin <= scale /\ scale <= ZoomMax
    /\ \A t \in saveTimers : ZoomMin <= t.zoom /\ t.zoom <= ZoomMax
    /\ \A c \in saveCalls : ZoomMin <= c.zoom_level /\ c.zoom_level <= ZoomMax

\* Zoom-in on a loaded zoom level of 2.9 has been clamped to 3.0 and saved.
C10_Witness ==
    /\ scale = ZoomMax /\ nZoom > 0 /\ currentPage = 2
    /\ \E c \in saveCalls : c.zoom_level = ZoomMax

\* C20: the unmount issues no save call and leaves no debounce timer pending,
\* and no save call is issued once the viewer is unmounted: the state of an
\* event less than 2 s before the unmount is not saved.
C20_Unmount == (mounted /\ ~mounted') => (IssuedSaves = {} /\ saveTimers' = {})

C20_After == ~mounted => IssuedSaves = {}

C21_Unmount == (mounted /\ ~mounted') => saveTimers' = saveTimers

C21_TimerSurvivesUnmount == [][C21_Unmount]_vars

----------------------------------------------------------------------------
\* Claims on annotations and pointer gestures (checked under SpecGesture).

\* The step is a pointer release (seen by the document) / a pointer move.
Releases == button = "left" /\ button' = "up" /\ ~press'.left
Moves == pointer' # pointer

\* The calls a step sends.
IssuedCalls == SubSeq(annCalls', Len(annCalls) + 1, Len(annCalls'))

\* The step is the resumption of the answered call i of the kind op.
Resumes(i, op) == Answered(i, op) /\ annCalls' = RemoveAt(annCalls, i)

\* C1: every annotation of the local list lies within its page:
\* 0 <= x, 0 <= y, x + width <= 100 and y + height <= 100, in every state.
C1_InBounds(a) ==
    /\ 0 <= a.x /\ 0 <= a.y
    /\ a.x + a.width <= Full
    /\ a.y + a.height <= Full

C1_AllInBounds == \A i \in 1..Len(annotations) : C1_InBounds(annotations[i])

\* C2: a pointer session of annotation creation, of resizing or of screenshot
\* selection whose displacement has stayed below the commit threshold (and
\* during which no call has resumed) has changed no annotation, and its
\* release changes none and sends no create call.
C2_Session ==
    /\ press.active /\ press.kind \in {"create", "resize", "screenshot"}
    /\ ~press.over /\ press.quiet

C2_NoChange == C2_Session => annotations = press.geom

C2_Release ==
    (C2_Session /\ Releases) =>
        /\ annotations' = press.geom
        /\ \A j \in 1..Len(IssuedCalls) : IssuedCalls[j].op # "create"

C2_BelowThreshold == [](C2_NoChange) /\ [][C2_Release]_vars

\* C4: a pointer move that resizes a text box from its nw corner by
\* (dx, dy) increases x and y by dx and dy, decreases width and height by dx
\* and dy, and leaves x + width at most 100.
C4_Move ==
    (Moves /\ resizingTextBox # Null) =>
        LET s == resizingTextBox[1]
            a == Find(annotations, s.id)
            b == Find(annotations', s.id)
            r == PageRect(a.page_number, scale, scrollTop)
            dx == DeltaPercent(pointer'.x - s.startX, r.width)
            dy == DeltaPercent(pointer'.y - s.startY, r.height)
        IN  (s.corner = "nw" /\ s.id \in Ids(annotations)) =>
                /\ b.x = a.x + dx /\ b.y = a.y + dy
                /\ b.width = a.width - dx /\ b.height = a.height - dy
                /\ b.x + b.width <= Full

C4_NwResize == [][C4_Move]_vars

\* C5: the release of a drag that began at (x0, y0) of page p in highlight
\* mode and ends at (x1, y1) of that page with |x1 - x0| > 1 sends one create
\* call for a highlight of page p with x = min(x0, x1), y = min(y0, y1),
\* width = |x1 - x0| and height = max(|y1 - y0|, 1.5); when the call has
\* succeeded the annotation appended to the list has these values.  The drag
\* from (10, 10) to (30, 11) on page 2 gives x = 10, y = 10, width = 20,
\* height = 1.5.
C5_Matches(a, d) ==
    /\ a.annotation_type = "highlight"
    /\ a.page_number = d.page
    /\ a.x = Min(d.x0, d.x1)
    /\ a.y = Min(d.y0, d.y1)
    /\ a.width = Abs(d.x1 - d.x0)
    /\ a.height = Max(Abs(d.y1 - d.y0), 15)
    /\ (d = [page |-> 2, x0 |-> 100, y0 |-> 100, x1 |-> 300, y1 |-> 110])
          => (a.page_number = 2 /\ a.x = 100 /\ a.y = 100 /\ a.width = 200 /\ a.height = 15)

C5_Release ==
    (/\ Releases /\ press.kind = "create" /\ press.quiet
     /\ annotationMode = "highlight"
     /\ DragOf(press.at, pointer) # Null) =>
        LET d == DragOf(press.at, pointer)[1]
            creates == SelectSeq(IssuedCalls, LAMBDA c : c.op = "create")
        IN  Abs(d.x1 - d.x0) > 10 =>
               /\ Len(creates) = 1
               /\ C5_Matches(creates[1].body[1], d)

C5_Resume ==
    \A i \in 1..Len(annCalls) :
        (/\ Resumes(i, "create") /\ annCalls[i].status = "ok"
         /\ annCalls[i].drag # Null /\ annCalls[i].args[1].type = "highlight") =>
            /\ Len(annotations') = Len(annotations) + 1
            /\ SubSeq(annotations', 1, Len(annotations)) = annotations
            /\ C5_Matches(annotations'[Len(annotations')], annCalls[i].drag[1])

C5_HighlightGeometry == [][C5_Release /\ C5_Resume]_vars

\* The highlight of the example is in the list.
C5_Witness ==
    \E i \in 1..Len(annotations) :
        /\ annotations[i].annotation_type = "highlight"
        /\ annotations[i].page_number = 2
        /\ annotations[i].x = 100 /\ annotations[i].y = 100
        /\ annotations[i].width = 200 /\ annotations[i].height = 15

\* C6: in mode "none", the release of a press on a text box that lasted less
\* than 300 ms without a move puts that text box in edit mode, leaves every
\* annotation where it was and leaves no drag or long-press timer behind; the
\* first move after a press of more than 300 ms moves the text box by the
\* displacement of the pointer (kept within the page) and the release after
\* more than 300 ms does not put it in edit mode.
C6_Click ==
    (/\ Releases /\ press.kind = "text" /\ press.quiet
     /\ press.elapsed < LongPressDelay /\ ~press.moved) =>
        /\ editingTextBox' = press.id
        /\ annotations = press.geom /\ annotations' = press.geom
        /\ draggingAnnotation' = Null
        /\ longPressTimers' = {}

C6_Drag ==
    (/\ Moves /\ press.active /\ press.kind = "text" /\ press.quiet
     /\ press.elapsed > LongPressDelay /\ ~press.moved) =>
        LET a == Find(annotations, press.id)
            b == Find(annotations', press.id)
            r == PageRect(a.page_number, scale, scrollTop)
            dx == DeltaPercent(pointer'.x - press.at.x, r.width)
            dy == DeltaPercent(pointer'.y - press.at.y, r.height)
        IN  /\ b.x = Max(0, Min(Full - a.width, a.x + dx))
            /\ b.y = Max(0, Min(Full - a.height, a.y + dy))
            /\ b.width = a.width /\ b.height = a.height
            /\ editingTextBox' # press.id

C6_LongRelease ==
    (/\ Releases /\ press.kind = "text" /\ press.quiet
     /\ press.elapsed > LongPressDelay) =>
        /\ editingTextBox' # press.id
        /\ press.moved =>
              \E j \in 1..Len(IssuedCalls) :
                  /\ IssuedCalls[j].op = "update" /\ IssuedCalls[j].id = press.id
                  /\ IssuedCalls[j].body[1] = [x |-> Find(annotations, press.id).x,
                                               y |-> Find(annotations, press.id).y]

C6_ClickOrDrag == [][C6_Click /\ C6_Drag /\ C6_LongRelease]_vars

\* The text box has been dragged after a long press and is not being edited.
C6_Witness ==
    /\ press.active /\ press.kind = "text" /\ press.moved
    /\ press.elapsed > LongPressDelay
    /\ draggingAnnotation # Null
    /\ press.id \in Ids(annotations)
    /\ Find(annotations, press.id).x # Find(press.geom, press.id).x
    /\ editingTextBox = 0

\* A click of less than 300 ms has put the text box in edit mode, unmoved.
C6_WitnessClick ==
    /\ editingTextBox = 1 /\ annotations = <<T1>> /\ nMoves = 0 /\ nPresses = 1
    /\ button = "up" /\ annCalls = <<>>

\* C7: when a create call has succeeded, the annotations of the page it was
\* made for (the per-page filter of the local list) hold a new entity whose
\* kind, page number, colour and text content are those given to
\* createAnnotation.
C7_Resume ==
    \A i \in 1..Len(annCalls) :
        (Resumes(i, "create") /\ annCalls[i].status = "ok") =>
            LET given == annCalls[i].args[1]
                listed == PageAnnotations(annotations', given.pageNumber)
            IN  \E k \in 1..Len(listed) :
                    /\ listed[k].id \notin Ids(annotations)
                    /\ listed[k].annotation_type = given.type
                    /\ listed[k].page_number = given.pageNumber
                    /\ listed[k].color = given.color
                    /\ listed[k].text_content = given.textContent

C7_RoundTrip == [][C7_Resume]_vars

\* A green highlight made on page 2 is listed for page 2.
C7_Witness ==
    \E k \in 1..Len(PageAnnotations(annotations, 2)) :
        LET a == PageAnnotations(annotations, 2)[k]
        IN  a.id > 1 /\ a.annotation_type = "highlight" /\ a.color = Some("green")

\* C8: the resumption of a delete call for an id that is no longer in the
\* local list (a second delete of the id) changes nothing, whether the call
\* succeeded or failed, and the caller's promise is resolved; the resumption
\* of any delete call removes no annotation with another id.
C8_Resume ==
    \A i \in 1..Len(annCalls) :
        Resumes(i, "delete") =>
            /\ Settles(annCalls[i].status) = "resolved"
            /\ annCalls[i].id \notin Ids(annotations) => annotations' = annotations
            /\ \/ annotations' = annotations
               \/ annotations' = SelectSeq(annotations, LAMBDA a : a.id # annCalls[i].id)

C8_DeleteIdempotent == [][C8_Resume]_vars

\* A second delete of an id has resumed and another annotation is still
\* listed.
C8_Witness == hist.redeleted # {} /\ Len(annotations) >= 1

\* C12: an annotation leaves the local list only in the resumption of a
\* delete call for its id that succeeded; the resumption of a failed delete
\* call leaves the list as it is, the annotation still in it.
C12_Removed == Ids(annotations) \ Ids(annotations')

C12_Step ==
    /\ \A id \in C12_Removed :
          \E i \in 1..Len(annCalls) :
              Resumes(i, "delete") /\ annCalls[i].id = id /\ annCalls[i].status = "ok"
    /\ \A i \in 1..Len(annCalls) :
          (Resumes(i, "delete") /\ annCalls[i].status = "err") => annotations' = annotations

C13_Issue ==
    \A j \in 1..Len(IssuedCalls) :
        LET c == IssuedCalls[j]
        IN  (c.op = "update" /\ c.id \in Ids(annotations')) =>
                \A f \in DOMAIN c.body[1] : Find(annotations', c.id)[f] = c.body[1][f]

C13_Failure ==
    \A i \in 1..Len(annCalls) :
        (Resumes(i, "update") /\ annCalls[i].status = "err") => annotations' = annotations

C13_OptimisticUpdate == [][C13_Issue /\ C13_Failure]_vars

\* C14: while a create call has not resumed, the local list holds its draft
\* (the values given to createAnnotation); the resumption of a failed create
\* call leaves the list without the draft, as it was before the create.
C14_IsDraft(a, c) ==
    /\ a.annotation_type = c.body[1].annotation_type
    /\ a.page_number = c.body[1].page_number
    /\ a.x = c.body[1].x /\ a.y = c.body[1].y
    /\ a.width = c.body[1].width /\ a.height = c.body[1].height

C14_Draft ==
    \A i \in 1..Len(annCalls) :
        annCalls[i].op = "create" =>
            \E k \in 1..Len(annotations) : C14_IsDraft(annotations[k], annCalls[i])

C14_RolledBack ==
    \A i \in 1..Len(annCalls) :
        (Resumes(i, "create") /\ annCalls[i].status = "err") =>
            /\ Len(annotations') = Len(annotations) - 1
            /\ \A k \in 1..Len(annotations') : ~C14_IsDraft(annotations'[k], annCalls[i])

C14_OptimisticCreate == [](C14_Draft) /\ [][C14_RolledBack]_vars

----------------------------------------------------------------------------
\* Claims on pointer sessions in mode "none" (checked under SpecSession).

\* C11: when the pointer has left the document area (or the window has lost
\* focus) during a pointer session that had moved beyond the commit
\* threshold, the state of the session is discarded:
\* nothing is being created, dragged, resized or selected; a later pointer
\* move changes no annotation; and the release of a later press that has
\* not moved sends no create or update call.
C11_Idle ==
    /\ ~isCreatingAnnotation /\ annotationStart = Null /\ annotationEnd = Null
    /\ draggingAnnotation = Null /\ resizingTextBox = Null
    /\ selectionStart = Null /\ selectionEnd = Null /\ ~isSelecting

C11_Discarded == (press.left /\ press.over) => C11_Idle

C11_NoCommit ==
    /\ (press.left /\ Moves) => annotations' = annotations
    /\ (Releases /\ press.after /\ ~press.moved) =>
          \A j \in 1..Len(IssuedCalls) : IssuedCalls[j].op \notin {"create", "update"}

C11_LeaveCancels == [](C11_Discarded) /\ [][C11_NoCommit]_vars

\* C17: in mode "none" no drag of a highlight ever starts: draggingAnnotation
\* never names a highlight, and a pointer move changes the x and y of no
\* highlight.
C17_NotDragged ==
    draggingAnnotation # Null =>
        \A i \in 1..Len(annotations) :
            annotations[i].id = draggingAnnotation[1].id
                => annotations[i].annotation_type # "highlight"

C17_Move ==
    Moves =>
        \A i \in 1..Len(annotations) :
            annotations[i].annotation_type = "highlight" =>
                \E k \in 1..Len(annotations') :
                    /\ annotations'[k].id = annotations[i].id
                    /\ annotations'[k].x = annotations[i].x
                    /\ annotations'[k].y = annotations[i].y

C17_HighlightNeverDrags == [](annotationMode = "none" => C17_NotDragged) /\ [][C17_Move]_vars

\* A press on the highlight H2 has been held beyond the long press and the
\* pointer has moved.
C17_Witness ==
    /\ annotationMode = "none"
    /\ press.active /\ press.at = ClientPoint(1, 300, 520, scale)
    /\ press.elapsed > LongPressDelay /\ press.moved
    /\ H2 \in {annotations[i] : i \in 1..Len(annotations)}

\* C18: when an update of an annotation resumes after a later update of the
\* same annotation was issued, and no update of the annotation is left in
\* flight, the local annotation holds the values of the later update.
C18_Resume ==
    \A i \in 1..Len(annCalls) :
        (/\ Resumes(i, "update") /\ annCalls[i].later # Null
         /\ annCalls[i].id \in Ids(annotations')
         /\ \A k \in 1..Len(annCalls') :
               ~(annCalls'[k].op = "update" /\ annCalls'[k].id = annCalls[i].id)) =>
            LET given == annCalls[i].later[1]
                a == Find(annotations', annCalls[i].id)
            IN  \A f \in DOMAIN given : a[f] = given[f]

C18_LastWriteWins == [][C18_Resume]_vars

----------------------------------------------------------------------------
\* Claims on the screenshot selection (checked under SpecShot).

\* The pixel rectangle between the press and the release.
ShotWidth == Abs(pointer.x - press.at.x)
ShotHeight == Abs(pointer.y - press.at.y)

\* C15: the release of a screenshot selection attempts the capture if and
\* only if the pointer has moved more than 5 px from the press and the
\* rectangle between press and release is at least 10 px wide and 10 px
\* high.
C15_Release ==
    (Releases /\ press.kind = "screenshot" /\ screenshotPreview = Null) =>
        (CaptureInvoked <=> (press.over /\ ShotWidth >= 10 /\ ShotHeight >= 10))

C15_CaptureIff == [][C15_Release]_vars

\* C16: the release of a screenshot selection whose rectangle overlaps the
\* canvas of no page sets no preview, and the handler completes (the
\* selection is no longer in progress).
C16_Apart ==
    \A p \in 1..totalPages :
        LET r == PageRect(p, scale, scrollTop)
            c == ContainerRect(scale, scrollTop)
            left == c.left + SelectionRect.x
            top == c.top + SelectionRect.y
        IN  \/ left >= r.left + r.width \/ left + SelectionRect.width <= r.left
            \/ top >= r.top + r.height \/ top + SelectionRect.height <= r.top

C16_Release ==
    (Releases /\ CaptureInvoked /\ C16_Apart) =>
        /\ screenshotPreview' = Null
        /\ isSelecting' = FALSE

C16_NoCanvasNoPreview == [][C16_Release]_vars

\* A selection to the right of the pages has been released: the handler
\* has returned at the missing canvas, before it clears the selection.
C16_Witness ==
    /\ button = "up" /\ ~isSelecting /\ screenshotPreview = Null
    /\ selectionStart # Null /\ selectionEnd # Null
    /\ selectionEnd[1].x - selectionStart[1].x = 40
    /\ selectionStart[1].x >= (PageWidth * scale) \div 100

----------------------------------------------------------------------------
\* Claims on the mapping from pixels to percentages (checked under SpecZoom).

\* The percentages of the place <<page, x, y>> of the page content.
C19_Percent(q) ==
    [x |-> (q[2] * Full) \div PageWidth, y |-> (q[3] * Full) \div PageHeight]

\* C19: at every zoom level a press on a place of the page content records
\* the same percentages for it, a drag that began at the press moves the
\* annotation between two places by the same percentages (while no call has
\* resumed during the press), and a change of the zoom level changes no
\* annotation.
C19_Start ==
    \A q \in ZoomPagePoints :
        (/\ press.active /\ press.kind = "create" /\ press.quiet
         /\ press.at = ClientPoint(q[1], q[2], q[3], scale)) =>
            annotationStart =
                Some([x |-> C19_Percent(q).x, y |-> C19_Percent(q).y, pageNumber |-> q[1]])

C19_Drag ==
    \A q0, q1 \in ZoomPagePoints :
        (/\ Moves /\ press.active /\ press.kind = "text" /\ ~press.moved
         /\ draggingAnnotation # Null /\ press.quiet
         /\ draggingAnnotation[1].id = press.id
         /\ draggingAnnotation[1].startX = press.at.x
         /\ draggingAnnotation[1].startY = press.at.y
         /\ press.at = ClientPoint(q0[1], q0[2], q0[3], scale)
         /\ pointer' = ClientPoint(q1[1], q1[2], q1[3], scale)
         /\ q0[1] = q1[1]) =>
            LET a == Find(annotations, press.id)
                b == Find(annotations', press.id)
            IN  /\ b.x = Max(0, Min(Full - a.width, a.x + C19_Percent(q1).x - C19_Percent(q0).x))
                /\ b.y = Max(0, Min(Full - a.height, a.y + C19_Percent(q1).y - C19_Percent(q0).y))
                /\ b.width = a.width /\ b.height = a.height

C19_Zoom == scale' # scale => annotations' = annotations

C19_ZoomInvariant == [](C19_Start) /\ [][C19_Drag /\ C19_Zoom]_vars

\* A press at scale 1.25 has recorded the percentages of its place.
C19_Witness ==
    /\ scale = 125 /\ press.active /\ press.kind = "create"
    /\ annotationStart = Some([x |-> 300, y |-> 300, pageNumber |-> 1])

\* The text box has been dragged at scale 0.75 by 20% and 10% of the page.
C19_WitnessDrag ==
    /\ scale = 75 /\ press.active /\ press.kind = "text" /\ press.moved
    /\ Find(annotations, 1).x = 300 /\ Find(annotations, 1).y = 110

\* C22: a pointer move that resizes a text box from a corner leaves the two
\* edges opposite to that corner where they were: the right edge (x + width)
\* for nw and sw, the left edge (x) for ne and se, the bottom edge
\* (y + height) for nw and ne, the top edge (y) for sw and se.
C22_Fixed(a, corner) ==
    <<IF corner \in {"nw", "sw"} THEN a.x + a.width ELSE a.x,
      IF corner \in {"nw", "ne"} THEN a.y + a.height ELSE a.y>>

C22_Move ==
    (Moves /\ resizingTextBox # Null) =>
        LET s == resizingTextBox[1]
        IN  s.id \in Ids(annotations) =>
                C22_Fixed(Find(annotations', s.id), s.corner)
                    = C22_Fixed(Find(annotations, s.id), s.corner)

C22_OppositeEdgesFixed == [][C22_Move]_vars

\* C23: a pointer move during a press on a text box in mode "none", less than
\* 300 ms after the press and more than 5 px away from it, starts the drag of
\* that text box, and the text box moves with the pointer.
C23_Move ==
    (/\ Moves /\ press.active /\ press.kind = "text" /\ press.quiet
     /\ press.elapsed < LongPressDelay
     /\ press.id \in Ids(annotations)
     /\ PixelDistSq(press.at, pointer') > SelectThresholdSq) =>
        LET a == Find(annotations, press.id)
            r == PageRect(a.page_number, scale, scrollTop)
            dx == DeltaPercent(pointer'.x - pointer.x, r.width)
            dy == DeltaPercent(pointer'.y - pointer.y, r.height)
        IN  /\ draggingAnnotation' # Null
            /\ draggingAnnotation'[1].id = press.id
            /\ Find(annotations', press.id) = Dragged(a, dx, dy)

C23_EarlyMoveDrags == [][C23_Move]_vars

----------------------------------------------------------------------------
\* Claims on creation sessions (checked under SpecCreate).

\* The rectangle between the point of the press and the pointer, in tenths
\* of a percent of page 1.
CreateWidth ==
    LET r == PageRect(1, scale, scrollTop)
    IN  Abs(ToPercent(pointer.x, r.left, r.width) - ToPercent(press.at.x, r.left, r.width))
CreateHeight ==
    LET r == PageRect(1, scale, scrollTop)
    IN  Abs(ToPercent(pointer.y, r.top, r.height) - ToPercent(press.at.y, r.top, r.height))

\* C24: the release of a press that began a creation sends a create call if
\* and only if the pointer has been more than 0.5 units away from the anchor
\* and the final rectangle is wider than 1 unit and, in text mode, higher
\* than 1 unit.
C24_Due ==
    /\ press.over
    /\ CreateWidth > MinCreateSize
    /\ annotationMode = "text" => CreateHeight > MinCreateSize

C24_Release ==
    (Releases /\ press.kind = "create" /\ annotationMode # "none") =>
        ((\E j \in 1..Len(IssuedCalls) : IssuedCalls[j].op = "create") <=> C24_Due)

C24_CreateIff == [][C24_Release]_vars

\* C25: the step that puts a newly created text box into the local list
\* also makes it the text box being edited.
C25_Step ==
    \A id \in Ids(annotations') \ Ids(annotations) :
        Find(annotations', id).annotation_type = "text" => editingTextBox' = id

C25_CreatedTextIsEdited == [][C25_Step]_vars

\* A text box created by a drag in text mode is in the list and is edited.
C25_Witness ==
    /\ annotationMode = "text"
    /\ Len(annotations) = 1
    /\ annotations[1].annotation_type = "text"
    /\ annotations[1].width = 200 /\ annotations[1].height = 300
    /\ editingTextBox = annotations[1].id

----------------------------------------------------------------------------
\* Claims on the state of pointer sessions.

\* C26: in every state at most one of annotationStart, draggingAnnotation,
\* resizingTextBox and selectionStart is set.
C26_Active ==
    {k \in 1..4 : <<annotationStart, draggingAnnotation, resizingTextBox,
                    selectionStart>>[k] # Null}

C26_OneSessionMode == Cardinality(C26_Active) <= 1

\* C27: after every pointer release nothing of the pointer session is left:
\* annotationStart, annotationEnd, draggingAnnotation, resizingTextBox,
\* selectionStart and selectionEnd are null and isCreatingAnnotation and
\* isSelecting are false.
C27_Cleared ==
    /\ annotationStart = Null /\ annotationEnd = Null /\ ~isCreatingAnnotation
    /\ draggingAnnotation = Null /\ resizingTextBox = Null
    /\ selectionStart = Null /\ selectionEnd = Null /\ ~isSelecting

C27_Release == Releases => C27_Cleared'

C27_ReleaseDestroysSession == [][C27_Release]_vars

\* C28: a press that follows a press whose release the document did not see
\* starts a session of its own: while the pointer has not been beyond the
\* threshold since that press, nothing is committed (isCreatingAnnotation
\* and isSelecting are false) and no end point is recorded; and that press
\* sends no create call and captures nothing.
C28_Fresh ==
    (/\ press.active /\ press.after /\ ~press.over /\ press.quiet
     /\ press.kind \in {"create", "screenshot"}) =>
        /\ ~isCreatingAnnotation /\ annotationEnd = Null
        /\ ~isSelecting /\ selectionEnd = Null

C28_Press ==
    (button = "up" /\ button' = "left" /\ press.left) =>
        /\ \A j \in 1..Len(IssuedCalls) : IssuedCalls[j].op # "create"
        /\ screenshotPreview' = screenshotPreview

C28_NewPressDiscards == [](C28_Fresh) /\ [][C28_Press]_vars

\* C29: during a press that began a creation or a screenshot selection, as
\* long as the pointer has not been beyond the threshold (0.5 units, 5 px)
\* from the point of the press, neither the annotation preview box nor the
\* selection box is rendered.
C29_NoPreview ==
    (/\ press.active /\ ~press.over
     /\ press.kind \in {"create", "screenshot"}) =>
        ~PreviewBoxVisible /\ ~SelectionBoxVisible

C29_NoPreviewBelowThreshold == [](C29_NoPreview)

----------------------------------------------------------------------------
\* Claims on the restore of the reading state (checked under SpecReading).

\* C30: the reading state is fetched by the step that loads the document and
\* by no other step, and the document loads once; the resumption of a
\* successful fetch sets the scale and the page to the stored values; and the
\* restore timer sets scrollTop to the stored percentage of
\* scrollHeight - clientHeight at the scale of that moment.
C30_Fetched == {c \in readCalls' \ readCalls : c.status = "sent"}

C30_Fetch ==
    /\ (totalPages = 0 /\ totalPages' # 0) => Cardinality(C30_Fetched) = 1
    /\ (totalPages # 0 \/ totalPages' = 0) => C30_Fetched = {}
    /\ totalPages # 0 => totalPages' = totalPages

C30_Apply ==
    \A c \in readCalls :
        (mounted /\ c.status = "ok" /\ readCalls' = readCalls \ {c}) =>
            /\ scale' = c.state.zoom_level
            /\ currentPage' = c.state.current_page

C30_Scroll ==
    \A t \in restoreTimers :
        (mounted /\ t.remaining = 0 /\ restoreTimers' = restoreTimers \ {t}) =>
            scrollTop' = ((ScrollHeight(totalPages, scale) - ClientHeight)
                            * t.scroll_position[1]) \div (t.scroll_position[2] * 100)

C32_Unrestored == totalPages = 0 \/ readCalls # {}

C32_Step == C32_Unrestored => IssuedSaves = {}

C32_NoSaveBeforeRestore == [][C32_Step]_vars

\* C36: currentPage changes only in the step that applies a fetched reading
\* state, scroll and zoom leave it, and every save call issued carries the
\* currentPage of that moment.
C36_Change ==
    currentPage' # currentPage =>
        \E c \in readCalls :
            /\ c.status = "ok" /\ readCalls' = readCalls \ {c}
            /\ currentPage' = c.state.current_page

C36_ScrollZoom == (scrollTop' # scrollTop \/ nZoom' # nZoom) => currentPage' = currentPage

C36_Save == \A c \in IssuedSaves : c.current_page = currentPage

C36_PageOnlyLoaded == [][C36_Change /\ (readCalls' = readCalls => C36_ScrollZoom) /\ C36_Save]_vars

\* A save call carrying page 2, the loaded page, has been issued after the
\* user scrolled to 300 px.
C36_Witness ==
    /\ mounted /\ stored.current_page = 2 /\ currentPage = 2
    /\ scrollTop = 300 /\ ~hist.unsaved
    /\ \E c \in saveCalls : c.current_page = 2

----------------------------------------------------------------------------
\* Claims on the long press and on creation across pages.

\* C33: after the document has seen the release of a press, no step sets
\* draggingAnnotation while the button is up, and no pointer move with the
\* button up moves an annotation.
C33_Step ==
    (button = "up" /\ button' = "up" /\ ~press.left) =>
        /\ draggingAnnotation = Null => draggingAnnotation' = Null
        /\ Moves => annotations' = annotations

C33_DragOnlyWhileHeld == [][C33_Step]_vars

\* C35: during a creation drag every recorded end point is the pointer
\* position in percentages of the anchor page.
C35_Move ==
    (/\ Moves /\ annotationStart # Null /\ annotationMode # "none"
     /\ annotationEnd' # Null /\ annotationEnd' # annotationEnd) =>
        LET r == PageRect(annotationStart[1].pageNumber, scale, scrollTop)
        IN  annotationEnd'[1] = [x |-> ToPercent(pointer'.x, r.left, r.width),
                                 y |-> ToPercent(pointer'.y, r.top, r.height)]

C35_AnchorPageSpace == [][C35_Move]_vars

C31_Intersection(sel, r) ==
    [width |-> Min(sel.left + sel.width, r.left + r.width) - Max(sel.left, r.left),
     height |-> Min(sel.top + sel.height, r.top + r.height) - Max(sel.top, r.top)]
C31_CropIsIntersection ==
    (cropInput # Null /\ screenshotCanvas # Null) =>
        LET c == cropInput[1]
            r == c.canvases[screenshotCanvas[1].target]
            meet == C31_Intersection(c.selection, r)
        IN  /\ screenshotCanvas[1].canvasWidth = ToNative(meet.width, CanvasNative.width, r.width)
            /\ screenshotCanvas[1].canvasHeight = ToNative(meet.height, CanvasNative.height, r.height)

\* C37: the answer to a submit, or the error message of a failed one, is
\* appended only while the panel shows the conversation it was sent in: a
\* reply that arrives after the user moved to another conversation is not
\* appended to the list of that conversation.
C37_Reply ==
    \A i \in 1..Len(chatCalls) :
        (/\ chatCalls[i].op = "send" /\ chatCalls[i].status # "sent"
         /\ chatCalls' = RemoveAt(chatCalls, i)
         /\ Len(messages') = Len(messages) + 1)
            => chatCalls[i].conv = conversationId
C37_ReplyInOwnConversation == [][C37_Reply]_vars

\* C38: the typewriter eventually displays the whole text and goes on
\* displaying it, also when characters are appended after the animation had
\* caught up with the text.
C38_WholeTextDisplayed == <>[](displayedText = textProp)

\* C39: an upload causes at most maxAttempts (30) status requests, and no
\* request is issued after an answer with the status 'completed' or 'failed'
\* or after a status request that failed.
C39_Step ==
    /\ pollHist'.requests <= maxAttempts
    /\ pollHist.ended => (pollHist'.requests = pollHist.requests /\ pollTimers' = 0)
C39_PollingBounded == [][C39_Step]_vars
C39_Witness ==
    /\ pollHist.requests = maxAttempts /\ attempts = maxAttempts
    /\ ~pollHist.ended /\ pollTimers = 0 /\ statusCalls = <<>>

====
